---- MODULE Spec2Model ----
(***************************************************************************)
(* A model of the rgb Game Boy emulator core: the timer (src/src/timer.rs), *)
(* the display stub (src/src/ppu.rs), the cartridges                        *)
(* (src/src/cartridge.rs), the DMG bus (src/src/bus.rs) and the CPU         *)
(* (src/src/cpu.rs), driven the way the test harnesses drive them.          *)
(*                                                                         *)
(* Rust structs are records with the fields' names; a method `f(&mut self,  *)
(* x)` of struct S is an operator F(s, x) giving the struct after the call. *)
(* Byte arrays ([u8; N]) are sparse maps from offset to non-zero byte: an   *)
(* offset outside the map's domain holds 0, as the zero-initialised array   *)
(* does.  A panic aborts the process: the record carries a `panicked` mark  *)
(* and the action that hits it leaves only that mark set.                   *)
(***************************************************************************)
EXTENDS Integers, Sequences, FiniteSets, TLC

VARIABLES
    bus,              \* the DmgBus, with its timer, display and cartridge
    cpu,              \* the Cpu: registers, flags, ime
    overflow_checks,  \* the build: TRUE when integer overflow panics (debug)
    last,             \* what the last operation was, and what it observed
    hist              \* counters over the whole run

vars == <<bus, cpu, overflow_checks, last, hist>>

-----------------------------------------------------------------------------
(* Bounds of the model.                                                    *)

\* operations of the bus interface in one run of Spec
MaxOps == 2
\* bus transactions in one run of SpecTimer
MaxTimerOps == 6
\* instructions in one run of SpecCpu
MaxSteps == 3

-----------------------------------------------------------------------------
(* Machine integers.                                                       *)

Byte == 0 .. 255

Pow2(n) == 2 ^ n

\* bit n of x
Bit(x, n) == (x \div Pow2(n)) % 2

RECURSIVE BitAnd(_, _)
\* x & y
BitAnd(x, y) ==
    IF x = 0 \/ y = 0 THEN 0
    ELSE (x % 2) * (y % 2) + 2 * BitAnd(x \div 2, y \div 2)

RECURSIVE BitOr(_, _)
\* x | y
BitOr(x, y) ==
    IF x = 0 THEN y
    ELSE IF y = 0 THEN x
    ELSE (IF x % 2 = 1 \/ y % 2 = 1 THEN 1 ELSE 0) + 2 * BitOr(x \div 2, y \div 2)

\* u16::saturating_add in the place of u16::wrapping_add
SaturatingAdd16(x, y) == IF x + y > 65535 THEN 65535 ELSE x + y

\* u16::wrapping_add
WrappingAdd16(x, y) == (x + y) % 65536

\* u16::wrapping_sub
WrappingSub16(x, y) == (x - y + 65536) % 65536

\* a zero-initialised byte array
ZeroArray == [o \in {} |-> 0]

\* array[off]
Load(array, off) == IF off \in DOMAIN array THEN array[off] ELSE 0

\* array[off + 1] = v
StoreNext(array, off, v) ==
    IF v = 0
    THEN [o \in DOMAIN array \ {off + 1} |-> array[o]]
    ELSE [o \in DOMAIN array \cup {off + 1} |-> IF o = off + 1 THEN v ELSE array[o]]

\* array[off] = v
Store(array, off, v) ==
    IF v = 0
    THEN [o \in DOMAIN array \ {off} |-> array[o]]
    ELSE [o \in DOMAIN array \cup {off} |-> IF o = off THEN v ELSE array[o]]

-----------------------------------------------------------------------------
(* src/src/timer.rs                                                        *)

\* Timer::default()
TimerDefault ==
    [sysclock |-> 0, tima |-> 0, tma |-> 0, edge |-> FALSE,
     tima_enable |-> FALSE, clock_select |-> 0]

\* the shift `match self.clock_select { 0 => 9, 1 => 3, 2 => 5, 3 => 7 }`
ClockShift(clock_select) ==
    CASE clock_select = 0 -> 9
      [] clock_select = 1 -> 3
      [] clock_select = 2 -> 5
      [] clock_select = 3 -> 7

\* the value Timer::tick gives self.edge when the timer is enabled, from the
\* sysclock it has just advanced
TimerEdge(t, sysclock) == Bit(sysclock, ClockShift(t.clock_select)) = 1

\* whether Timer::tick increments TIMA: `self.tima_enable` and
\* `!self.edge && old_edge`
TimerTickIncrements(t) ==
    /\ t.tima_enable
    /\ t.edge
    /\ ~TimerEdge(t, WrappingAdd16(t.sysclock, 4))

\* whether Timer::tick returns Some(Interrupt::Timer): `increment.1`
TimerTickInterrupt(t) == TimerTickIncrements(t) /\ t.tima = 255

\* Timer::tick: the timer afterwards
TimerTick(t) ==
    LET sysclock == WrappingAdd16(t.sysclock, 4)
        t1 == [t EXCEPT !.sysclock = sysclock]
    IN  IF t.tima_enable
        THEN LET t2 == [t1 EXCEPT !.edge = TimerEdge(t, sysclock)]
             IN  IF TimerTickIncrements(t)
                 THEN IF t.tima = 255
                      THEN [t2 EXCEPT !.tima = t.tma]
                      ELSE [t2 EXCEPT !.tima = t.tima + 1]
                 ELSE t2
        ELSE t1

\* Timer::read_byte
TimerReadByte(t, address) ==
    CASE address = \hFF04 -> t.sysclock \div 256
      [] address = \hFF05 -> t.tima
      [] address = \hFF06 -> t.tma
      [] address = \hFF07 ->
            BitOr(BitOr(\hF8, (IF t.tima_enable THEN 1 ELSE 0) * 4), t.clock_select)

\* Timer::write_byte
TimerWriteByte(t, address, value) ==
    CASE address = \hFF04 -> [t EXCEPT !.sysclock = 0]
      [] address = \hFF05 -> [t EXCEPT !.tima = value]
      [] address = \hFF06 -> [t EXCEPT !.tma = value]
      [] address = \hFF07 ->
            [t EXCEPT !.tima_enable = BitAnd(value, 4) # 0,
                      !.clock_select = BitAnd(value, 3)]

-----------------------------------------------------------------------------
(* src/src/ppu.rs                                                          *)

\* Ppu::default()
PpuDefault == [vram |-> ZeroArray, oam |-> ZeroArray, scy |-> 0]

\* Ppu::tick: the display afterwards (the stub changes nothing)
PpuTick(p) == p

\* Ppu::tick's return value: "None", or the name of an Interrupt
PpuTickInterrupt(p) == "None"

-----------------------------------------------------------------------------
(* src/src/cartridge.rs                                                    *)

\* A ROM image (the Vec<u8> given to from_rom) is a record: its length, the
\* three header bytes from_rom reads, and a seed for the other bytes.
\* rom[off], for off < rom.len
RomByte(rom, off) ==
    CASE off = \h0147 -> rom.mbc
      [] off = \h0148 -> rom.rom_size
      [] off = \h0149 -> rom.ram_size
      [] OTHER -> (rom.fill + (16 * (off \div 16384)) + ((off % 16384) % 13)) % 256

\* `ram: None`
RamNone == [some |-> FALSE, len |-> 0, data |-> ZeroArray]

\* `Some(Vec::with_capacity(n))`: an empty vector, whatever its capacity
RamWithCapacity(n) == [some |-> TRUE, len |-> 0, data |-> ZeroArray]

\* `cartridge: None` of the bus
CartridgeNone ==
    [kind |-> "None", rom |-> [len |-> 0, mbc |-> 0, rom_size |-> 0, ram_size |-> 0, fill |-> 0],
     ram |-> RamNone, active_bank |-> 0, ram_enabled |-> FALSE]

\* from_rom asserting `*header_rom_size < 8`
FromRomPanicsStrictSize(rom) ==
    \/ rom.len <= \h0148
    \/ rom.rom_size >= 8
    \/ Pow2(15 + rom.rom_size) # rom.len
    \/ rom.ram_size \notin {0, 2, 3, 4, 5}
    \/ rom.mbc \notin {0, 1}

\* whether from_rom panics: the expect, the asserts and the panic! arms
FromRomPanics(rom) ==
    \/ rom.len <= \h0148
    \/ rom.rom_size > 8
    \/ Pow2(15 + rom.rom_size) # rom.len
    \/ rom.ram_size \notin {0, 2, 3, 4, 5}
    \/ rom.mbc \notin {0, 1}

\* from_rom, when it does not panic
FromRom(rom) ==
    LET ram == CASE rom.ram_size = 0 -> RamNone
                 [] rom.ram_size = 2 -> RamWithCapacity(\h2000)
                 [] rom.ram_size = 3 -> RamWithCapacity(\h8000)
                 [] rom.ram_size = 4 -> RamWithCapacity(\h20000)
                 [] rom.ram_size = 5 -> RamWithCapacity(\h10000)
    IN  [kind |-> IF rom.mbc = 0 THEN "NoMbc" ELSE "Mbc1",
         rom |-> rom, ram |-> ram, active_bank |-> 0, ram_enabled |-> FALSE]

\* the bank Mbc1::read_byte uses for 0x4000..=0x7FFF
Mbc1ActiveBank(c) ==
    IF c.active_bank \in {\h00, \h20, \h40, \h60} THEN c.active_bank + 1 ELSE c.active_bank

\* the index Mbc1::read_byte computes for 0x4000..=0x7FFF:
\* `(address * u16::from(active_bank)) as usize`, a u16 product
Mbc1RomIndex(c, address) == (address * Mbc1ActiveBank(c)) % 65536

\* whether Cartridge::read_byte panics (index out of bounds, or the u16
\* product overflowing in a build that checks overflow)
CartridgeReadPanics(c, address) ==
    CASE c.kind = "NoMbc" -> address >= c.rom.len
      [] c.kind = "Mbc1" ->
            IF address <= \h3FFF THEN address >= c.rom.len
            ELSE IF address <= \h7FFF
            THEN \/ overflow_checks /\ address * Mbc1ActiveBank(c) > 65535
                 \/ Mbc1RomIndex(c, address) >= c.rom.len
            ELSE IF address >= \hA000 /\ address <= \hBFFF
            THEN c.ram_enabled /\ c.ram.some /\ address - \hA000 >= c.ram.len
            ELSE FALSE
      [] OTHER -> FALSE

\* Cartridge::read_byte, when it does not panic
CartridgeReadByte(c, address) ==
    CASE c.kind = "NoMbc" -> RomByte(c.rom, address)
      [] c.kind = "Mbc1" ->
            IF address <= \h3FFF THEN RomByte(c.rom, address)
            ELSE IF address <= \h7FFF THEN RomByte(c.rom, Mbc1RomIndex(c, address))
            ELSE IF address >= \hA000 /\ address <= \hBFFF
            THEN IF ~c.ram_enabled \/ ~c.ram.some THEN \hFF
                 ELSE Load(c.ram.data, address - \hA000)
            ELSE \hFF

\* Mbc1::write_byte as the write_byte of every cartridge
CartridgeWriteByteAnyKind(c, address, value) ==
    IF address <= \h1FFF
    THEN [c EXCEPT !.ram_enabled = BitAnd(value, \h0A) > 0]
    ELSE IF address >= \h2000 /\ address <= \h3FFF
    THEN IF BitAnd(value, \h1F) \in {\h00, \h20, \h40, \h60}
         THEN [c EXCEPT !.active_bank = value + 1]
         ELSE [c EXCEPT !.active_bank = value]
    ELSE c

\* Cartridge::write_byte
CartridgeWriteByte(c, address, value) ==
    CASE c.kind = "NoMbc" -> c
      [] c.kind = "Mbc1" ->
            IF address <= \h1FFF
            THEN [c EXCEPT !.ram_enabled = BitAnd(value, \h0A) > 0]
            ELSE IF address >= \h2000 /\ address <= \h3FFF
            THEN IF BitAnd(value, \h1F) \in {\h00, \h20, \h40, \h60}
                 THEN [c EXCEPT !.active_bank = value + 1]
                 ELSE [c EXCEPT !.active_bank = value]
            ELSE c

-----------------------------------------------------------------------------
(* src/src/bus.rs                                                          *)

\* the echo arms' index with the work-RAM base subtracted: `address - 0xC000`
EchoOffsetFromWram(address) == address - \hC000

\* the index of the echo arms of peek_byte and write_byte into wram:
\* `(address - 0xE000) as usize`
EchoOffset(address) == address - \hE000

\* DmgBus::default().  Three fields are not fields of the struct: `ticks`
\* counts the calls of tick since the initial state, `tick_order` lists the peripherals the last tick
\* called, in the order it called them, and `panicked` marks a panic.
BusDefault ==
    [bootrom |-> ZeroArray,
     wram |-> ZeroArray,
     hram |-> ZeroArray,
     ppu |-> PpuDefault,
     interrupt_enable |-> 0,
     interrupt_flags |-> 0,
     serial |-> 0,
     serial_control |-> 0,
     timer |-> TimerDefault,
     cartridge |-> CartridgeNone,
     bootrom_enabled |-> FALSE,
     ticks |-> 0,
     tick_order |-> <<>>,
     panicked |-> FALSE]

\* the first half of DmgBus::tick: `self.ppu.tick()` and the match on its result
BusTickPpu(b) ==
    LET irq == PpuTickInterrupt(b.ppu)
    IN  [b EXCEPT !.ppu = PpuTick(b.ppu),
                  !.interrupt_flags =
                      CASE irq = "VBlank" -> BitOr(@, 1)
                        [] irq = "Stat" -> BitOr(@, 2)
                        [] OTHER -> @,
                  !.panicked = @ \/ irq \notin {"None", "VBlank", "Stat"},
                  !.tick_order = Append(@, "ppu")]

\* the second half of DmgBus::tick raising bit 1 (Stat) for the timer
BusTickTimerSetsStat(b) ==
    [b EXCEPT !.timer = TimerTick(b.timer),
              !.interrupt_flags = IF TimerTickInterrupt(b.timer) THEN BitOr(@, 2) ELSE @,
              !.tick_order = Append(@, "timer")]

\* the second half of DmgBus::tick with `interrupt_flags = 4` for `|= 4`
BusTickTimerAssigns(b) ==
    [b EXCEPT !.timer = TimerTick(b.timer),
              !.interrupt_flags = IF TimerTickInterrupt(b.timer) THEN 4 ELSE @,
              !.tick_order = Append(@, "timer")]

\* the second half of DmgBus::tick: `self.timer.tick()` and `interrupt_flags |= 4`
BusTickTimer(b) ==
    [b EXCEPT !.timer = TimerTick(b.timer),
              !.interrupt_flags = IF TimerTickInterrupt(b.timer) THEN BitOr(@, 4) ELSE @,
              !.tick_order = Append(@, "timer")]

\* DmgBus::tick
BusTick(b) ==
    BusTickTimer(BusTickPpu([b EXCEPT !.ticks = @ + 1, !.tick_order = <<>>]))

\* the argument of set_boot_rom is a Vec<u8>: its length and its bytes
\* DmgBus::set_boot_rom (clone_from_slice panics unless the lengths agree)
BusSetBootRom(b, bootrom) ==
    IF bootrom.len # 256
    THEN [b EXCEPT !.panicked = TRUE]
    ELSE [b EXCEPT !.bootrom = bootrom.data, !.bootrom_enabled = TRUE]

\* the condition of DmgBus::peek_byte's `if` with the range written `0x000..=0x100`
BootRomMappedInclusive(b, address) ==
    b.bootrom_enabled /\ address >= \h0000 /\ address <= \h0100

\* the condition of DmgBus::peek_byte's `if`:
\* `self.bootrom_enabled && (0x000..0x100).contains(&address)`
BootRomMapped(b, address) ==
    b.bootrom_enabled /\ address >= \h0000 /\ address < \h0100

\* where DmgBus::peek_byte reads address from: the arm its `if` and `match` take
BusPeekTarget(b, address) ==
    IF BootRomMapped(b, address) THEN "bootrom"
    ELSE CASE address <= \h7FFF \/ (address >= \hA000 /\ address <= \hBFFF) -> "cartridge"
           [] address >= \h8000 /\ address <= \h9FFF -> "vram"
           [] address >= \hC000 /\ address <= \hDFFF -> "wram"
           [] address >= \hE000 /\ address <= \hFDFF -> "echo"
           [] address >= \hFE00 /\ address <= \hFE9F -> "oam"
           [] address >= \hFEA0 /\ address <= \hFEFF -> "unused"
           [] address = \hFF01 -> "serial"
           [] address = \hFF02 -> "serial_control"
           [] address >= \hFF04 /\ address <= \hFF07 -> "timer"
           [] address = \hFF42 -> "scy"
           [] address = \hFF44 -> "ly"
           [] address = \hFF0F -> "interrupt_flags"
           [] address >= \hFF00 /\ address <= \hFF7F -> "io"
           [] address >= \hFF80 /\ address <= \hFFFE -> "hram"
           [] address = \hFFFF -> "interrupt_enable"

\* whether DmgBus::peek_byte panics: only the cartridge's read_byte can
BusPeekPanics(b, address) ==
    /\ BusPeekTarget(b, address) = "cartridge"
    /\ b.cartridge.kind # "None"
    /\ CartridgeReadPanics(b.cartridge, address)

\* DmgBus::peek_byte, when it does not panic
BusPeekByte(b, address) ==
    LET target == BusPeekTarget(b, address)
    IN  CASE target = "bootrom" -> Load(b.bootrom, address)
          [] target = "cartridge" ->
                IF b.cartridge.kind # "None"
                THEN CartridgeReadByte(b.cartridge, address)
                ELSE \hFF
          [] target = "vram" -> Load(b.ppu.vram, address - \h8000)
          [] target = "wram" -> Load(b.wram, address - \hC000)
          [] target = "echo" -> Load(b.wram, EchoOffset(address))
          [] target = "oam" -> Load(b.ppu.oam, address - \hFE00)
          [] target = "unused" -> \h00
          [] target = "serial" -> b.serial
          [] target = "serial_control" -> b.serial_control
          [] target = "timer" -> TimerReadByte(b.timer, address)
          [] target = "scy" -> b.ppu.scy
          [] target = "ly" -> \h90
          [] target = "interrupt_flags" -> b.interrupt_flags
          [] target = "io" -> \h00
          [] target = "hram" -> Load(b.hram, address - \hFF80)
          [] target = "interrupt_enable" -> b.interrupt_enable

\* DmgBus::read_byte: the bus afterwards (the byte is BusPeekByte(b, address))
BusReadByte(b, address) ==
    IF b.panicked THEN b
    ELSE IF BusPeekPanics(b, address) THEN [b EXCEPT !.panicked = TRUE]
    ELSE BusTick(b)

\* whether `address + 1` of DmgBus::read_word overflows and panics
ReadWordOverflows(address) == overflow_checks /\ address = \hFFFF

\* DmgBus::read_word: the bus afterwards
BusReadWord(b, address) ==
    LET b1 == BusReadByte(b, address)
    IN  IF ReadWordOverflows(address)
        THEN [b1 EXCEPT !.panicked = TRUE]
        ELSE BusReadByte(b1, (address + 1) % 65536)

\* DmgBus::read_word: the word it returns, when it does not panic
BusReadWordValue(b, address) ==
    LET low_byte == BusPeekByte(b, address)
        b1 == BusReadByte(b, address)
    IN  BitOr(BusPeekByte(b1, (address + 1) % 65536) * 256, low_byte)

\* the `match address` of DmgBus::write_byte, before its tick
BusWriteAccess(b, address, value) ==
    CASE address <= \h7FFF \/ (address >= \hA000 /\ address <= \hBFFF) ->
            IF b.cartridge.kind # "None"
            THEN [b EXCEPT !.cartridge = CartridgeWriteByte(@, address, value)]
            ELSE b
      [] address >= \h8000 /\ address <= \h9FFF ->
            [b EXCEPT !.ppu.vram = Store(@, address - \h8000, value)]
      [] address >= \hC000 /\ address <= \hDFFF ->
            [b EXCEPT !.wram = Store(@, address - \hC000, value)]
      [] address >= \hE000 /\ address <= \hFDFF ->
            [b EXCEPT !.wram = Store(@, EchoOffset(address), value)]
      [] address >= \hFE00 /\ address <= \hFE9F ->
            [b EXCEPT !.ppu.oam = Store(@, address - \hFE00, value)]
      [] address = \hFF01 -> [b EXCEPT !.serial = value]
      [] address = \hFF02 -> [b EXCEPT !.serial_control = value]
      [] address >= \hFF04 /\ address <= \hFF07 ->
            [b EXCEPT !.timer = TimerWriteByte(@, address, value)]
      [] address = \hFF0F -> [b EXCEPT !.interrupt_flags = BitOr(\hE0, value)]
      [] address = \hFF42 -> [b EXCEPT !.ppu.scy = value]
      [] address = \hFF50 ->
            IF value > 0 THEN [b EXCEPT !.bootrom_enabled = FALSE] ELSE b
      [] address >= \hFF80 /\ address <= \hFFFE ->
            [b EXCEPT !.hram = Store(@, address - \hFF80, value)]
      [] address = \hFFFF -> [b EXCEPT !.interrupt_enable = BitOr(\hE0, value)]
      [] OTHER -> b

\* DmgBus::write_byte returning before its tick for the boot-ROM disable port
BusWriteByteNoTickOnDisable(b, address, value) ==
    IF b.panicked THEN b
    ELSE IF address = \hFF50 THEN BusWriteAccess(b, address, value)
    ELSE BusTick(BusWriteAccess(b, address, value))

\* DmgBus::write_byte with an arm `0xFF03 => self.serial = value`
BusWriteByteSerialAtFF03(b, address, value) ==
    IF b.panicked THEN b
    ELSE BusTick(BusWriteAccess(b, IF address = \hFF03 THEN \hFF01 ELSE address, value))

\* DmgBus::write_byte
BusWriteByte(b, address, value) ==
    IF b.panicked THEN b ELSE BusTick(BusWriteAccess(b, address, value))

\* DmgBus::write_word
BusWriteWord(b, address, value) ==
    BusWriteByte(BusWriteByte(b, address, value % 256),
                 WrappingAdd16(address, 1), value \div 256)

\* DmgBus::set_post_boot_state
BusSetPostBootState(b) == [b EXCEPT !.timer.sysclock = \hAB]

\* DmgBus::get_interrupt_enable
BusGetInterruptEnable(b) == b.interrupt_enable

\* DmgBus::set_interrupt_enable
BusSetInterruptEnable(b, flags) == [b EXCEPT !.interrupt_enable = flags]

\* DmgBus::get_interrupt_flags
BusGetInterruptFlags(b) == b.interrupt_flags

\* DmgBus::set_interrupt_flags
BusSetInterruptFlags(b, flags) == [b EXCEPT !.interrupt_flags = flags]

\* DmgBus::insert_cartridge
BusInsertCartridge(b, cartridge) == [b EXCEPT !.cartridge = cartridge]

\* DmgBus::remove_cartridge
BusRemoveCartridge(b) == [b EXCEPT !.cartridge = CartridgeNone]

-----------------------------------------------------------------------------
(* src/src/cpu.rs.  The Cpu owns its bus: the operators below work on a    *)
(* machine m = [cpu |-> the Cpu's own fields, bus |-> its bus].            *)

\* Cpu::default() without its bus
CpuDefault ==
    [registers |-> [a |-> 0, b |-> 0, c |-> 0, d |-> 0, e |-> 0, h |-> 0, l |-> 0,
                    pc |-> 0, sp |-> 0],
     flags |-> [z |-> FALSE, c |-> FALSE, n |-> FALSE, h |-> FALSE],
     ime |-> FALSE]

\* the machine after a panic in the Cpu's own code
CpuPanic(m) == [m EXCEPT !.bus.panicked = TRUE]

\* Cpu::get_register_pair with the carry flag at bit 3 (0x08)
CpuGetRegisterPairCarryBit3(c, rp) ==
    CASE rp = "BC" -> c.registers.b * 256 + c.registers.c
      [] rp = "DE" -> c.registers.d * 256 + c.registers.e
      [] rp = "HL" -> c.registers.h * 256 + c.registers.l
      [] rp = "AF" ->
            c.registers.a * 256
                + (IF c.flags.z THEN \h80 ELSE 0) + (IF c.flags.n THEN \h40 ELSE 0)
                + (IF c.flags.h THEN \h20 ELSE 0) + (IF c.flags.c THEN \h08 ELSE 0)
      [] rp = "SP" -> c.registers.sp

\* Cpu::get_register_pair
CpuGetRegisterPair(c, rp) ==
    CASE rp = "BC" -> c.registers.b * 256 + c.registers.c
      [] rp = "DE" -> c.registers.d * 256 + c.registers.e
      [] rp = "HL" -> c.registers.h * 256 + c.registers.l
      [] rp = "AF" ->
            c.registers.a * 256
                + (IF c.flags.z THEN \h80 ELSE 0) + (IF c.flags.n THEN \h40 ELSE 0)
                + (IF c.flags.h THEN \h20 ELSE 0) + (IF c.flags.c THEN \h10 ELSE 0)
      [] rp = "SP" -> c.registers.sp

\* Cpu::set_register_pair
CpuSetRegisterPair(c, rp, value) ==
    CASE rp = "AF" ->
            [c EXCEPT !.registers.a = value \div 256,
                      !.flags.z = BitAnd(value, \h80) = \h80,
                      !.flags.n = BitAnd(value, \h40) = \h40,
                      !.flags.h = BitAnd(value, \h20) = \h20,
                      !.flags.c = BitAnd(value, \h10) = \h10]
      [] rp = "BC" -> [c EXCEPT !.registers.b = value \div 256, !.registers.c = value % 256]
      [] rp = "DE" -> [c EXCEPT !.registers.d = value \div 256, !.registers.e = value % 256]
      [] rp = "HL" -> [c EXCEPT !.registers.h = value \div 256, !.registers.l = value % 256]
      [] rp = "SP" -> [c EXCEPT !.registers.sp = value]

\* Cpu::fetch_imm8 (and Cpu::fetch): the machine afterwards; the byte fetched
\* is BusPeekByte(m.bus, m.cpu.registers.pc)
CpuFetchImm8(m) ==
    [m EXCEPT !.bus = BusReadByte(@, m.cpu.registers.pc),
              !.cpu.registers.pc = WrappingAdd16(@, 1)]

\* Cpu::push writing at SP before it decrements SP
CpuPushPostDecrement(m, value) ==
    [m EXCEPT !.cpu.registers.sp = WrappingSub16(m.cpu.registers.sp, 2),
              !.bus = BusWriteWord(@, m.cpu.registers.sp, value)]

\* Cpu::push
CpuPush(m, value) ==
    LET sp == WrappingSub16(m.cpu.registers.sp, 2)
    IN  [m EXCEPT !.cpu.registers.sp = sp,
                  !.bus = BusWriteWord(@, sp, value)]

\* Cpu::pop adding 1 to SP
CpuPopOneByte(m) ==
    [m EXCEPT !.bus = BusReadWord(@, m.cpu.registers.sp),
              !.cpu.registers.sp = WrappingAdd16(@, 1)]

\* Cpu::pop: the machine afterwards; the word popped is
\* BusReadWordValue(m.bus, m.cpu.registers.sp)
CpuPop(m) ==
    [m EXCEPT !.bus = BusReadWord(@, m.cpu.registers.sp),
              !.cpu.registers.sp = WrappingAdd16(@, 2)]

\* the opcodes for which Cpu::decode panics ("Unhandled opcode")
IllegalOpcodes ==
    {\hD3, \hDB, \hDD, \hE3, \hE4, \hEB, \hEC, \hED, \hF4, \hFC, \hFD}

\* the opcodes 0o307 | 0o317 | ... | 0o377 of Cpu::decode
RstOpcodes == {\hC7, \hCF, \hD7, \hDF, \hE7, \hEF, \hF7, \hFF}

\* the opcodes 0o301 | 0o321 | 0o341 and 0o361 of Cpu::decode
PopOpcodes == {\hC1, \hD1, \hE1, \hF1}

\* the opcodes 0o305 | 0o325 | 0o345 and 0o365 of Cpu::decode
PushOpcodes == {\hC5, \hD5, \hE5, \hF5}

\* inherent_condition_operand
InherentConditionOperand(opcode) ==
    CASE opcode % 4 = 0 -> "NonZero"
      [] opcode % 4 = 1 -> "Zero"
      [] opcode % 4 = 2 -> "NonCarry"
      [] opcode % 4 = 3 -> "Carry"

\* inherent_register_operand
InherentRegisterOperand(opcode) ==
    CASE opcode % 8 = 0 -> "B"
      [] opcode % 8 = 1 -> "C"
      [] opcode % 8 = 2 -> "D"
      [] opcode % 8 = 3 -> "E"
      [] opcode % 8 = 4 -> "H"
      [] opcode % 8 = 5 -> "L"
      [] opcode % 8 = 6 -> "IndirectHL"
      [] opcode % 8 = 7 -> "A"

\* inherent_registerpair_operand
InherentRegisterPairOperand(opcode) ==
    CASE opcode % 8 \in {0, 1} -> "BC"
      [] opcode % 8 \in {2, 3} -> "DE"
      [] opcode % 8 \in {4, 5} -> "HL"
      [] opcode % 8 \in {6, 7} -> "SP"

\* the register pair of a Push or Pop opcode: RegisterPair::AF for 0o361 and
\* 0o365, inherent_registerpair_operand((opcode & 0o70) >> 3) for the others
PushPopPair(opcode) ==
    IF opcode \in {\hF1, \hF5} THEN "AF"
    ELSE InherentRegisterPairOperand(BitAnd(opcode, \h38) \div 8)

\* a value of enum Operand: its variant and what the variant holds
Operand(kind, v) == [kind |-> kind, v |-> v]

\* `value as u16` of an i8 value taken as if it were a u8: no sign extension
ZeroExtend(value) == value % 256

\* `value as u16` of an i8 value (kept as its byte): the sign extension
SignExtend(value) == IF value >= 128 THEN value + \hFF00 ELSE value

\* the byte Cpu::fetch_imm8 returns
CpuImm8(m) == BusPeekByte(m.bus, m.cpu.registers.pc)

\* the word Cpu::fetch_imm16 returns, when it does not panic
CpuImm16(m) == BusReadWordValue(m.bus, m.cpu.registers.pc)

\* Cpu::fetch_imm16: the machine afterwards
CpuFetchImm16(m) ==
    [m EXCEPT !.bus = BusReadWord(@, m.cpu.registers.pc),
              !.cpu.registers.pc = WrappingAdd16(@, 2)]

\* a value of enum Instruction: its variant and what the variant holds, with
\* the machine as Cpu::decode leaves it after fetching the operands
Decoded(m, name, arg, arg2) == [name |-> name, arg |-> arg, arg2 |-> arg2, m |-> m]

\* the inner `match opcode` of Cpu::decode's arm 0o313 (the CB prefix): m is
\* the machine after the second opcode byte was fetched
CpuDecodePrefixed(m, opcode) ==
    LET register == InherentRegisterOperand(opcode)
    IN  CASE opcode <= \o07 -> Decoded(m, "Rlc", register, 0)
          [] opcode >= \o10 /\ opcode <= \o17 -> Decoded(m, "Rrc", register, 0)
          [] opcode >= \o20 /\ opcode <= \o27 -> Decoded(m, "Rl", register, 0)
          [] opcode >= \o30 /\ opcode <= \o37 -> Decoded(m, "Rr", register, 0)
          [] opcode >= \o40 /\ opcode <= \o47 -> Decoded(m, "Sla", register, 0)
          [] opcode >= \o50 /\ opcode <= \o57 -> Decoded(m, "Sra", register, 0)
          [] opcode >= \o60 /\ opcode <= \o67 -> Decoded(m, "Swap", register, 0)
          [] opcode >= \o70 /\ opcode <= \o77 -> Decoded(m, "Srl", register, 0)
          [] opcode >= \o100 /\ opcode <= \o177 ->
                Decoded(m, "Bit", (opcode - \o100) \div 8, register)
          [] opcode >= \o200 /\ opcode <= \o277 ->
                Decoded(m, "Res", (opcode - \o200) \div 8, register)
          [] opcode >= \o300 /\ opcode <= \o377 ->
                Decoded(m, "Set", (opcode - \o300) \div 8, register)

\* Cpu::decode: the instruction, and in its field m the machine afterwards
CpuDecode(m, opcode) ==
    LET imm8 == CpuImm8(m)
        m8 == CpuFetchImm8(m)
        imm16 == CpuImm16(m)
        m16 == CpuFetchImm16(m)
        register == Operand("Register", InherentRegisterOperand(opcode))
        middle == Operand("Register", InherentRegisterOperand(BitAnd(opcode, \o70) \div 8))
        pair == InherentRegisterPairOperand(opcode \div 8)
        A == Operand("Register", "A")
    IN  CASE opcode = \o00 -> Decoded(m, "Nop", 0, 0)
          [] opcode \in {\o01, \o21, \o41, \o61} ->
                Decoded(m16, "Ld", Operand("RegisterPair", pair),
                        Operand("Immediate16", imm16))
          [] opcode = \o07 -> Decoded(m, "Rlca", 0, 0)
          [] opcode = \o17 -> Decoded(m, "Rrca", 0, 0)
          [] opcode = \o27 -> Decoded(m, "Rla", 0, 0)
          [] opcode = \o37 -> Decoded(m, "Rra", 0, 0)
          [] opcode = \o47 -> Decoded(m, "Daa", 0, 0)
          [] opcode = \o57 -> Decoded(m, "Cpl", 0, 0)
          [] opcode = \o67 -> Decoded(m, "Scf", 0, 0)
          [] opcode = \o77 -> Decoded(m, "Ccf", 0, 0)
          [] opcode \in {\o11, \o31, \o51, \o71} ->
                Decoded(m, "Add", Operand("RegisterPair", "HL"),
                        Operand("RegisterPair", pair))
          [] opcode = \o10 ->
                Decoded(m16, "Ld", Operand("IndirectImmediate16", imm16),
                        Operand("RegisterPair", "SP"))
          [] opcode \in {\o02, \o22} ->
                Decoded(m, "Ld", Operand("RegisterIndirect", pair), A)
          [] opcode \in {\o12, \o32} ->
                Decoded(m, "Ld", A, Operand("RegisterIndirect", pair))
          [] opcode = \o42 -> Decoded(m, "Ld", Operand("Register", "IncrementHL"), A)
          [] opcode = \o52 -> Decoded(m, "Ld", A, Operand("Register", "IncrementHL"))
          [] opcode = \o62 -> Decoded(m, "Ld", Operand("Register", "DecrementHL"), A)
          [] opcode = \o72 -> Decoded(m, "Ld", A, Operand("Register", "DecrementHL"))
          [] opcode = \o20 -> Decoded(m, "Stop", 0, 0)
          [] opcode = \o30 -> Decoded(m8, "Jr", "Always", imm8)
          [] opcode \in {\o40, \o50, \o60, \o70} ->
                Decoded(m8, "Jr", InherentConditionOperand((opcode - \o40) \div 8), imm8)
          [] opcode \in {\o03, \o23, \o43, \o63} ->
                Decoded(m, "Inc", Operand("RegisterPair", pair), 0)
          [] opcode \in {\o13, \o33, \o53, \o73} ->
                Decoded(m, "Dec", Operand("RegisterPair", pair), 0)
          [] opcode \in {\o04, \o14, \o24, \o34, \o44, \o54, \o64, \o74} ->
                Decoded(m, "Inc", middle, 0)
          [] opcode \in {\o05, \o15, \o25, \o35, \o45, \o55, \o65, \o75} ->
                Decoded(m, "Dec", middle, 0)
          [] opcode \in {\o06, \o16, \o26, \o36, \o46, \o56, \o66, \o76} ->
                Decoded(m8, "Ld", middle, Operand("Immediate8", imm8))
          [] opcode = \o166 -> Decoded(m, "Halt", 0, 0)
          [] opcode >= \o100 /\ opcode <= \o177 /\ opcode # \o166 ->
                Decoded(m, "Ld",
                        Operand("Register", InherentRegisterOperand(opcode \div 8)),
                        register)
          [] opcode >= \o200 /\ opcode <= \o207 -> Decoded(m, "Add", A, register)
          [] opcode >= \o210 /\ opcode <= \o217 -> Decoded(m, "Adc", register, 0)
          [] opcode >= \o220 /\ opcode <= \o227 -> Decoded(m, "Sub", register, 0)
          [] opcode >= \o230 /\ opcode <= \o237 -> Decoded(m, "Sbc", register, 0)
          [] opcode >= \o240 /\ opcode <= \o247 -> Decoded(m, "And", register, 0)
          [] opcode >= \o250 /\ opcode <= \o257 -> Decoded(m, "Xor", register, 0)
          [] opcode >= \o260 /\ opcode <= \o267 -> Decoded(m, "Or", register, 0)
          [] opcode >= \o270 /\ opcode <= \o277 -> Decoded(m, "Cp", register, 0)
          [] opcode \in {\o300, \o310, \o320, \o330} ->
                Decoded(m, "Ret", InherentConditionOperand(opcode \div 8), 0)
          [] opcode \in PopOpcodes -> Decoded(m, "Pop", PushPopPair(opcode), 0)
          [] opcode \in PushOpcodes -> Decoded(m, "Push", PushPopPair(opcode), 0)
          [] opcode = \o311 -> Decoded(m, "Ret", "Always", 0)
          [] opcode = \o303 -> Decoded(m16, "Jp", "Always", Operand("Immediate16", imm16))
          [] opcode = \o351 -> Decoded(m, "Jp", "Always", Operand("RegisterPair", "HL"))
          [] opcode \in {\o302, \o312, \o322, \o332} ->
                Decoded(m16, "Jp", InherentConditionOperand(opcode \div 8),
                        Operand("Immediate16", imm16))
          [] opcode \in {\o304, \o314, \o324, \o334} ->
                Decoded(m16, "Call", InherentConditionOperand(opcode \div 8), imm16)
          [] opcode = \o315 -> Decoded(m16, "Call", "Always", imm16)
          [] opcode = \o313 -> CpuDecodePrefixed(m8, imm8)
          [] opcode = \o306 -> Decoded(m8, "Add", A, Operand("Immediate8", imm8))
          [] opcode = \o316 -> Decoded(m8, "Adc", Operand("Immediate8", imm8), 0)
          [] opcode = \o326 -> Decoded(m8, "Sub", Operand("Immediate8", imm8), 0)
          [] opcode = \o331 -> Decoded(m, "Reti", 0, 0)
          [] opcode = \o336 -> Decoded(m8, "Sbc", Operand("Immediate8", imm8), 0)
          [] opcode = \o340 -> Decoded(m8, "Ld", Operand("IndirectImmediate8", imm8), A)
          [] opcode = \o342 -> Decoded(m, "Ld", Operand("Register", "IndirectC"), A)
          [] opcode = \o346 -> Decoded(m8, "And", Operand("Immediate8", imm8), 0)
          [] opcode = \o350 ->
                Decoded(m8, "Add", Operand("RegisterPair", "SP"),
                        Operand("Immediate8", imm8))
          [] opcode = \o352 -> Decoded(m16, "Ld", Operand("IndirectImmediate16", imm16), A)
          [] opcode = \o356 -> Decoded(m8, "Xor", Operand("Immediate8", imm8), 0)
          [] opcode = \o360 -> Decoded(m8, "Ld", A, Operand("IndirectImmediate8", imm8))
          [] opcode = \o362 -> Decoded(m, "Ld", A, Operand("Register", "IndirectC"))
          [] opcode = \o363 -> Decoded(m, "Di", 0, 0)
          [] opcode = \o366 -> Decoded(m8, "Or", Operand("Immediate8", imm8), 0)
          [] opcode = \o370 ->
                Decoded(m8, "Ld", Operand("RegisterPair", "HL"),
                        Operand("StackOffset", imm8))
          [] opcode = \o371 ->
                Decoded(m, "Ld", Operand("RegisterPair", "SP"),
                        Operand("RegisterPair", "HL"))
          [] opcode = \o372 -> Decoded(m16, "Ld", A, Operand("IndirectImmediate16", imm16))
          [] opcode = \o373 -> Decoded(m, "Ei", 0, 0)
          [] opcode = \o376 -> Decoded(m8, "Cp", Operand("Immediate8", imm8), 0)
          [] opcode \in RstOpcodes ->
                Decoded(m, "Rst", (BitAnd(opcode, \o70) \div 8) * 16, 0)
          [] opcode \in IllegalOpcodes ->
                Decoded(CpuPanic(m), "Unhandled opcode", opcode, 0)

\* x ^ y
BitXor(x, y) == BitOr(x, y) - BitAnd(x, y)

\* the field of Registers that Index<&Register> gives for a register (the
\* other variants of Register panic: "Unknown register")
RegisterField(register) ==
    CASE register = "A" -> "a"
      [] register = "B" -> "b"
      [] register = "C" -> "c"
      [] register = "D" -> "d"
      [] register = "E" -> "e"
      [] register = "H" -> "h"
      [] register = "L" -> "l"

\* `self.registers[&register]`
RegisterGet(m, register) == m.cpu.registers[RegisterField(register)]

\* `self.registers[&register] = value`
RegisterSet(m, register, value) ==
    [m EXCEPT !.cpu.registers[RegisterField(register)] = value]

\* `self.get_register_pair(&RegisterPair::HL)`
HL(m) == CpuGetRegisterPair(m.cpu, "HL")

\* `self.bus.read_byte(address)`: the machine afterwards
CpuReadByte(m, address) == [m EXCEPT !.bus = BusReadByte(@, address)]

\* `self.bus.write_byte(address, value)`
CpuWriteByte(m, address, value) == [m EXCEPT !.bus = BusWriteByte(@, address, value)]

\* the assignments to self.flags.z, .n, .h and .c
SetFlags(m, z, n, h, c) ==
    [m EXCEPT !.cpu.flags = [z |-> z, c |-> c, n |-> n, h |-> h]]

\* the `match condition` of Call, Jp, Jr and Ret
ConditionHolds(m, condition) ==
    CASE condition = "Always" -> TRUE
      [] condition = "Carry" -> m.cpu.flags.c
      [] condition = "NonCarry" -> ~m.cpu.flags.c
      [] condition = "Zero" -> m.cpu.flags.z
      [] condition = "NonZero" -> ~m.cpu.flags.z

\* the value of the 8-bit source operand of an arithmetic or logical
\* instruction: (HL) read from the bus, a register, or the immediate byte
SourceValue(m, source) ==
    IF source.kind = "Immediate8" THEN source.v
    ELSE IF source.v = "IndirectHL" THEN BusPeekByte(m.bus, HL(m))
    ELSE RegisterGet(m, source.v)

\* the machine after the source operand was taken: the read of (HL) ticks
SourceRead(m, source) ==
    IF source.kind = "Register" /\ source.v = "IndirectHL"
    THEN CpuReadByte(m, HL(m))
    ELSE m

\* Cpu::execute, Instruction::Ld(RegisterPair(_), StackOffset(value)): LD HL,SP+e
CpuLdStackOffset(m, value) ==
    LET sp == CpuGetRegisterPair(m.cpu, "SP")
        result == WrappingAdd16(sp, SignExtend(value))
        h == BitAnd(sp, \h0F) + BitAnd(SignExtend(value), \h0F) > \h0F
        c == BitAnd(sp, \hFF) + BitAnd(SignExtend(value), \hFF) > \hFF
        m1 == SetFlags(m, FALSE, FALSE, h, c)
    IN  [m1 EXCEPT !.cpu = CpuSetRegisterPair(@, "HL", result)]

\* Cpu::execute, Instruction::Ld: the arms of `match (target, source)` in
\* their order
CpuLd(m, target, source) ==
    LET IsRegister(operand, register) ==
            operand.kind = "Register" /\ operand.v = register
        SetHL(mm, value) == [mm EXCEPT !.cpu = CpuSetRegisterPair(@, "HL", value)]
        \* `self.registers[&target.v] = self.bus.read_byte(address)`
        ReadInto(address) ==
            RegisterSet(CpuReadByte(m, address), target.v, BusPeekByte(m.bus, address))
    IN  IF IsRegister(target, "IndirectHL") /\ source.kind = "Register"
        THEN CpuWriteByte(m, HL(m), RegisterGet(m, source.v))
        ELSE IF IsRegister(target, "IndirectHL") /\ source.kind = "Immediate8"
        THEN CpuWriteByte(m, HL(m), source.v)
        ELSE IF IsRegister(target, "DecrementHL") /\ source.kind = "Register"
        THEN SetHL(CpuWriteByte(m, HL(m), RegisterGet(m, source.v)),
                   WrappingSub16(HL(m), 1))
        ELSE IF IsRegister(target, "IncrementHL") /\ source.kind = "Register"
        THEN SetHL(CpuWriteByte(m, HL(m), RegisterGet(m, source.v)),
                   WrappingAdd16(HL(m), 1))
        ELSE IF target.kind = "Register" /\ IsRegister(source, "IncrementHL")
        THEN SetHL(ReadInto(HL(m)), WrappingAdd16(HL(ReadInto(HL(m))), 1))
        ELSE IF IsRegister(target, "IndirectC") /\ IsRegister(source, "A")
        THEN CpuWriteByte(m, \hFF00 + RegisterGet(m, "C"), m.cpu.registers.a)
        ELSE IF IsRegister(target, "A") /\ IsRegister(source, "IndirectC")
        THEN ReadInto(\hFF00 + RegisterGet(m, "C"))
        ELSE IF target.kind = "RegisterIndirect" /\ source.kind = "Register"
        THEN CpuWriteByte(m, CpuGetRegisterPair(m.cpu, target.v),
                          RegisterGet(m, source.v))
        ELSE IF target.kind = "Register" /\ source.kind = "RegisterIndirect"
        THEN ReadInto(CpuGetRegisterPair(m.cpu, source.v))
        ELSE IF target.kind = "Register" /\ IsRegister(source, "IndirectHL")
        THEN ReadInto(HL(m))
        ELSE IF target.kind = "IndirectImmediate8" /\ source.kind = "Register"
        THEN CpuWriteByte(m, \hFF00 + target.v, RegisterGet(m, source.v))
        ELSE IF target.kind = "Register" /\ source.kind = "IndirectImmediate8"
        THEN ReadInto(\hFF00 + source.v)
        ELSE IF target.kind = "IndirectImmediate16" /\ source.kind = "Register"
        THEN CpuWriteByte(m, target.v, RegisterGet(m, source.v))
        ELSE IF target.kind = "IndirectImmediate16" /\ source.kind = "RegisterPair"
        THEN [m EXCEPT !.bus = BusWriteWord(@, target.v,
                                            CpuGetRegisterPair(m.cpu, source.v))]
        ELSE IF target.kind = "Register" /\ source.kind = "IndirectImmediate16"
        THEN ReadInto(source.v)
        ELSE IF target.kind = "Register" /\ IsRegister(source, "DecrementHL")
        THEN SetHL(ReadInto(HL(m)), WrappingSub16(HL(m), 1))
        ELSE IF target.kind = "Register" /\ source.kind = "Register"
        THEN RegisterSet(m, target.v, RegisterGet(m, source.v))
        ELSE IF target.kind = "Register" /\ source.kind = "Immediate8"
        THEN RegisterSet(m, target.v, source.v)
        ELSE IF target.kind = "RegisterPair" /\ source.kind = "Immediate16"
        THEN [m EXCEPT !.cpu = CpuSetRegisterPair(@, target.v, source.v)]
        ELSE IF target.kind = "RegisterPair" /\ source.kind = "RegisterPair"
        THEN [m EXCEPT !.cpu = CpuSetRegisterPair(@, target.v,
                                                  CpuGetRegisterPair(m.cpu, source.v))]
        ELSE IF target.kind = "RegisterPair" /\ source.kind = "StackOffset"
        THEN CpuLdStackOffset(m, source.v)
        ELSE CpuPanic(m)

\* Cpu::execute, Instruction::Add(Register(A), source): ADD A,r / (HL) / n
CpuAddA(m, source) ==
    LET value == SourceValue(m, source)
        m1 == SourceRead(m, source)
        a == m.cpu.registers.a
        result == (a + value) % 256
        m2 == SetFlags(m1, result = 0, FALSE,
                       BitAnd(a, \h0F) + BitAnd(value, \h0F) > \h0F,
                       a + value > 255)
    IN  [m2 EXCEPT !.cpu.registers.a = result]

\* Cpu::execute, Instruction::Add(RegisterPair(rp), RegisterPair(source)): ADD HL,rp
CpuAddPair(m, rp, source) ==
    LET x == CpuGetRegisterPair(m.cpu, rp)
        y == CpuGetRegisterPair(m.cpu, source)
        m1 == [m EXCEPT !.cpu.flags.n = FALSE,
                        !.cpu.flags.h = BitAnd(x, \h0FFF) + BitAnd(y, \h0FFF) > \h0FFF,
                        !.cpu.flags.c = x + y > 65535]
    IN  [m1 EXCEPT !.cpu = CpuSetRegisterPair(@, rp, WrappingAdd16(x, y))]

\* Cpu::execute, Instruction::Add(RegisterPair(rp), Immediate8(value)): ADD SP,e
CpuAddStackOffset(m, rp, value) ==
    LET x == CpuGetRegisterPair(m.cpu, rp)
        result == WrappingAdd16(x, SignExtend(value))
        h == BitAnd(x, \h0F) + BitAnd(value, \h0F) > \h0F
        c == BitAnd(x, \hFF) + BitAnd(value, \hFF) > \hFF
        m1 == SetFlags(m, FALSE, FALSE, h, c)
    IN  [m1 EXCEPT !.cpu = CpuSetRegisterPair(@, rp, result)]

\* Cpu::execute, Instruction::Add: the `match target` and `match source`
CpuAdd(m, target, source) ==
    IF target.kind = "Register" /\ target.v = "A"
    THEN IF source.kind \in {"Register", "Immediate8"}
         THEN CpuAddA(m, source)
         ELSE CpuPanic(m)
    ELSE IF target.kind = "RegisterPair"
    THEN IF source.kind = "RegisterPair" THEN CpuAddPair(m, target.v, source.v)
         ELSE IF source.kind = "Immediate8" THEN CpuAddStackOffset(m, target.v, source.v)
         ELSE CpuPanic(m)
    ELSE CpuPanic(m)

\* Cpu::execute, Instruction::Adc with the half carry computed without the
\* carry flag
CpuAdcHalfCarryWithoutCarry(m, source) ==
    LET value == SourceValue(m, source)
        m1 == SourceRead(m, source)
        a == m.cpu.registers.a
        carry_in == IF m.cpu.flags.c THEN 1 ELSE 0
        first == (a + value) % 256
        carry == a + value > 255
        result == (first + carry_in) % 256
        m2 == SetFlags(m1, result = 0, FALSE,
                       BitAnd(a, \h0F) + BitAnd(value, \h0F) > \h0F,
                       carry \/ first + carry_in > 255)
    IN  [m2 EXCEPT !.cpu.registers.a = result]

\* Cpu::execute, Instruction::Adc
CpuAdc(m, source) ==
    LET value == SourceValue(m, source)
        m1 == SourceRead(m, source)
        a == m.cpu.registers.a
        carry_in == IF m.cpu.flags.c THEN 1 ELSE 0
        first == (a + value) % 256
        carry == a + value > 255
        result == (first + carry_in) % 256
        m2 == SetFlags(m1, result = 0, FALSE,
                       BitAnd(a, \h0F) + BitAnd(value, \h0F) + carry_in > \h0F,
                       carry \/ first + carry_in > 255)
    IN  [m2 EXCEPT !.cpu.registers.a = result]

\* Cpu::execute, Instruction::Sub
CpuSub(m, source) ==
    LET value == SourceValue(m, source)
        m1 == SourceRead(m, source)
        a == m.cpu.registers.a
        result == (a - value + 256) % 256
        m2 == SetFlags(m1, result = 0, TRUE,
                       BitAnd(a, \h0F) < BitAnd(value, \h0F),
                       a < value)
    IN  [m2 EXCEPT !.cpu.registers.a = result]

\* Cpu::execute, Instruction::Sbc
CpuSbc(m, source) ==
    LET value == SourceValue(m, source)
        m1 == SourceRead(m, source)
        a == m.cpu.registers.a
        carry_in == IF m.cpu.flags.c THEN 1 ELSE 0
        first == (a - value + 256) % 256
        carry == a < value
        result == (first - carry_in + 256) % 256
        m2 == SetFlags(m1, result = 0, TRUE,
                       BitAnd(a, \h0F) < BitAnd(value, \h0F) + carry_in,
                       carry \/ first < carry_in)
    IN  [m2 EXCEPT !.cpu.registers.a = result]

\* Cpu::execute, Instruction::Xor
CpuXor(m, operand) ==
    LET result == BitXor(m.cpu.registers.a, SourceValue(m, operand))
        m1 == SetFlags(SourceRead(m, operand), result = 0, FALSE, FALSE, FALSE)
    IN  [m1 EXCEPT !.cpu.registers.a = result]

\* Cpu::execute, Instruction::And
CpuAnd(m, operand) ==
    LET result == BitAnd(m.cpu.registers.a, SourceValue(m, operand))
        m1 == SetFlags(SourceRead(m, operand), result = 0, FALSE, TRUE, FALSE)
    IN  [m1 EXCEPT !.cpu.registers.a = result]

\* Cpu::execute, Instruction::Or
CpuOr(m, operand) ==
    LET result == BitOr(m.cpu.registers.a, SourceValue(m, operand))
        m1 == SetFlags(SourceRead(m, operand), result = 0, FALSE, FALSE, FALSE)
    IN  [m1 EXCEPT !.cpu.registers.a = result]

\* Cpu::execute, Instruction::Cp
CpuCp(m, operand) ==
    LET value == SourceValue(m, operand)
        a == m.cpu.registers.a
    IN  SetFlags(SourceRead(m, operand), (a - value + 256) % 256 = 0, TRUE,
                 BitAnd(a, \h0F) < BitAnd(value, \h0F), a < value)

\* the operand of a rotate or shift as the code takes it: a register's value,
\* or for (HL) two reads of the bus, the first for the shifted value and the
\* second for the bit shifted out; m is the machine afterwards
TwoReads(m, register) ==
    IF register = "IndirectHL"
    THEN LET m1 == CpuReadByte(m, HL(m))
         IN  [m |-> CpuReadByte(m1, HL(m1)),
              first |-> BusPeekByte(m.bus, HL(m)),
              second |-> BusPeekByte(m1.bus, HL(m1))]
    ELSE [m |-> m, first |-> RegisterGet(m, register),
          second |-> RegisterGet(m, register)]

\* the write-back of a rotate, shift, SWAP, RES or SET: to the bus at HL, or
\* to the register
StoreOperand(m, register, value) ==
    IF register = "IndirectHL"
    THEN CpuWriteByte(m, HL(m), value)
    ELSE RegisterSet(m, register, value)

\* `u8::from(self.flags.c)`
CarryIn(m) == IF m.cpu.flags.c THEN 1 ELSE 0

\* Cpu::execute, Instruction::Rl
CpuRl(m, register) ==
    LET r == TwoReads(m, register)
        result0 == (r.first * 2) % 256
        result1 == BitAnd(r.second, \h80) # 0
        stored == BitOr(result0, CarryIn(m))
    IN  SetFlags(StoreOperand(r.m, register, stored), stored = 0, FALSE, FALSE, result1)

\* Cpu::execute, Instruction::Rr
CpuRr(m, register) ==
    LET r == TwoReads(m, register)
        result0 == r.first \div 2
        result1 == BitAnd(r.second, \h01) # 0
        stored == BitOr(result0, IF m.cpu.flags.c THEN \h80 ELSE 0)
    IN  SetFlags(StoreOperand(r.m, register, stored), stored = 0, FALSE, FALSE, result1)

\* Cpu::execute, Instruction::Rla
CpuRla(m) ==
    LET a == m.cpu.registers.a
        m1 == RegisterSet(m, "A", BitOr((a * 2) % 256, CarryIn(m)))
    IN  SetFlags(m1, FALSE, FALSE, FALSE, BitAnd(a, \h80) # 0)

\* Cpu::execute, Instruction::Rra
CpuRra(m) ==
    LET a == m.cpu.registers.a
        m1 == RegisterSet(m, "A", BitOr(a \div 2, IF m.cpu.flags.c THEN \h80 ELSE 0))
    IN  SetFlags(m1, FALSE, FALSE, FALSE, BitAnd(a, \h01) # 0)

\* Cpu::execute, Instruction::Rlca
CpuRlca(m) ==
    LET a == m.cpu.registers.a
        result1 == BitAnd(a, \h80) # 0
        m1 == RegisterSet(m, "A", BitOr((a * 2) % 256, IF result1 THEN 1 ELSE 0))
    IN  SetFlags(m1, FALSE, FALSE, FALSE, result1)

\* Cpu::execute, Instruction::Rrca
CpuRrca(m) ==
    LET a == m.cpu.registers.a
        result1 == BitAnd(a, \h01) # 0
        m1 == RegisterSet(m, "A", BitOr(a \div 2, IF result1 THEN \h80 ELSE 0))
    IN  SetFlags(m1, FALSE, FALSE, FALSE, result1)

\* Cpu::execute, Instruction::Rlc: for (HL) the Z flag is taken from the
\* shifted value before the bit rotated in is added
CpuRlc(m, register) ==
    LET r == TwoReads(m, register)
        result0 == (r.first * 2) % 256
        result1 == BitAnd(r.second, \h80) # 0
        stored == BitOr(result0, IF result1 THEN 1 ELSE 0)
        z == IF register = "IndirectHL" THEN result0 = 0 ELSE stored = 0
    IN  SetFlags(StoreOperand(r.m, register, stored), z, FALSE, FALSE, result1)

\* Cpu::execute, Instruction::Rrc
CpuRrc(m, register) ==
    LET r == TwoReads(m, register)
        result0 == r.first \div 2
        result1 == BitAnd(r.second, \h01) # 0
        stored == BitOr(result0, IF result1 THEN \h80 ELSE 0)
        z == IF register = "IndirectHL" THEN result0 = 0 ELSE stored = 0
    IN  SetFlags(StoreOperand(r.m, register, stored), z, FALSE, FALSE, result1)

\* Cpu::execute, Instruction::Sla: (HL) gets `result.0 | ((result.0 >> 1) & 1)`,
\* a register `result.0 | ((result.0 << 1) & 1)`
CpuSla(m, register) ==
    LET r == TwoReads(m, register)
        result0 == (r.first * 2) % 256
        result1 == BitAnd(r.second, \h80) # 0
        stored == IF register = "IndirectHL"
                  THEN BitOr(result0, BitAnd(result0 \div 2, 1))
                  ELSE BitOr(result0, BitAnd((result0 * 2) % 256, 1))
    IN  SetFlags(StoreOperand(r.m, register, stored), result0 = 0, FALSE, FALSE, result1)

\* Cpu::execute, Instruction::Sra: (HL) gets `result.0 | ((result.0 >> 1) & 1)`,
\* a register `result.0 | (self.registers[&register] & 0x80)`
CpuSra(m, register) ==
    LET r == TwoReads(m, register)
        shifted == r.first \div 2
        result1 == BitAnd(r.second, \h01) # 0
        result0 == IF register = "IndirectHL" THEN shifted
                   ELSE BitOr(shifted, BitAnd(r.first, \h80))
        stored == IF register = "IndirectHL"
                  THEN BitOr(shifted, BitAnd(shifted \div 2, 1))
                  ELSE result0
    IN  SetFlags(StoreOperand(r.m, register, stored), result0 = 0, FALSE, FALSE, result1)

\* Cpu::execute, Instruction::Srl
CpuSrl(m, register) ==
    LET r == TwoReads(m, register)
        result0 == r.first \div 2
        result1 == BitAnd(r.second, \h01) # 0
    IN  SetFlags(StoreOperand(r.m, register, result0), result0 = 0, FALSE, FALSE, result1)

\* the operand of SWAP, BIT, RES, SET, INC and DEC: a register's value, or
\* for (HL) one read of the bus; m is the machine afterwards
SingleRead(m, register) ==
    IF register = "IndirectHL"
    THEN [m |-> CpuReadByte(m, HL(m)), value |-> BusPeekByte(m.bus, HL(m))]
    ELSE [m |-> m, value |-> RegisterGet(m, register)]

\* u8::rotate_right(4) with the high nibble kept in place
RotateRight4KeepsHigh(value) == BitOr(BitAnd(value, \hF0), value \div 16)

\* u8::rotate_right(4)
RotateRight4(value) == (value \div 16) + (value % 16) * 16

\* Cpu::execute, Instruction::Swap
CpuSwap(m, register) ==
    LET r == SingleRead(m, register)
        result == RotateRight4(r.value)
    IN  SetFlags(StoreOperand(r.m, register, result), result = 0, FALSE, FALSE, FALSE)

\* Cpu::execute, Instruction::Bit
CpuBit(m, bit, register) ==
    LET r == SingleRead(m, register)
        value == BitAnd(r.value, Pow2(bit))
    IN  [r.m EXCEPT !.cpu.flags.z = value = 0,
                    !.cpu.flags.n = FALSE,
                    !.cpu.flags.h = TRUE]

\* Cpu::execute, Instruction::Set
CpuSet(m, bit, register) ==
    LET r == SingleRead(m, register)
    IN  StoreOperand(r.m, register, BitOr(r.value, Pow2(bit)))

\* Cpu::execute, Instruction::Res
CpuRes(m, bit, register) ==
    LET r == SingleRead(m, register)
    IN  StoreOperand(r.m, register, BitAnd(r.value, 255 - Pow2(bit)))

\* Cpu::execute, Instruction::Inc
CpuInc(m, operand) ==
    IF operand.kind = "RegisterPair"
    THEN [m EXCEPT !.cpu = CpuSetRegisterPair(
                      @, operand.v,
                      WrappingAdd16(CpuGetRegisterPair(m.cpu, operand.v), 1))]
    ELSE IF operand.kind = "Register"
    THEN LET r == SingleRead(m, operand.v)
             result == (r.value + 1) % 256
             m1 == StoreOperand(r.m, operand.v, result)
         IN  [m1 EXCEPT !.cpu.flags.z = result = 0,
                        !.cpu.flags.n = FALSE,
                        !.cpu.flags.h = BitAnd(r.value, \h0F) + 1 > \h0F]
    ELSE CpuPanic(m)

\* Cpu::execute, Instruction::Dec
CpuDec(m, operand) ==
    IF operand.kind = "RegisterPair"
    THEN [m EXCEPT !.cpu = CpuSetRegisterPair(
                      @, operand.v,
                      WrappingSub16(CpuGetRegisterPair(m.cpu, operand.v), 1))]
    ELSE IF operand.kind = "Register"
    THEN LET r == SingleRead(m, operand.v)
             result == (r.value + 255) % 256
             m1 == StoreOperand(r.m, operand.v, result)
         IN  [m1 EXCEPT !.cpu.flags.z = result = 0,
                        !.cpu.flags.n = TRUE,
                        !.cpu.flags.h = BitAnd(result, \h0F) + 1 > \h0F]
    ELSE CpuPanic(m)

\* Cpu::execute, Instruction::Call pushing the address of the CALL's operand
CpuCallPushesOperandAddress(m, condition, address) ==
    IF ConditionHolds(m, condition)
    THEN [CpuPush(m, WrappingSub16(m.cpu.registers.pc, 2))
             EXCEPT !.cpu.registers.pc = address]
    ELSE m

\* Cpu::execute, Instruction::Call
CpuCall(m, condition, address) ==
    IF ConditionHolds(m, condition)
    THEN [CpuPush(m, m.cpu.registers.pc) EXCEPT !.cpu.registers.pc = address]
    ELSE m

\* Cpu::execute, Instruction::Jp
CpuJp(m, condition, operand) ==
    IF ConditionHolds(m, condition)
    THEN IF operand.kind = "RegisterPair" /\ operand.v = "HL"
         THEN [m EXCEPT !.cpu.registers.pc = HL(m)]
         ELSE IF operand.kind = "Immediate16"
         THEN [m EXCEPT !.cpu.registers.pc = operand.v]
         ELSE CpuPanic(m)
    ELSE m

\* Cpu::execute, Instruction::Jr
CpuJr(m, condition, offset) ==
    IF ConditionHolds(m, condition)
    THEN [m EXCEPT !.cpu.registers.pc = WrappingAdd16(@, SignExtend(offset))]
    ELSE m

\* Instruction::Ret as it would be if it set IME like Instruction::Reti
CpuRetEnablesInterrupts(m, condition) ==
    IF ConditionHolds(m, condition)
    THEN [CpuPop(m) EXCEPT !.cpu.registers.pc =
                               BusReadWordValue(m.bus, m.cpu.registers.sp),
                           !.cpu.ime = TRUE]
    ELSE m

\* Cpu::execute, Instruction::Ret
CpuRet(m, condition) ==
    IF ConditionHolds(m, condition)
    THEN [CpuPop(m) EXCEPT !.cpu.registers.pc =
                               BusReadWordValue(m.bus, m.cpu.registers.sp)]
    ELSE m

\* Cpu::execute
CpuExecute(m, instruction) ==
    LET name == instruction.name
        arg == instruction.arg
        arg2 == instruction.arg2
    IN  CASE name = "Nop" -> m
          [] name = "Ld" -> CpuLd(m, arg, arg2)
          [] name = "Add" -> CpuAdd(m, arg, arg2)
          [] name = "Adc" -> CpuAdc(m, arg)
          [] name = "Sub" -> CpuSub(m, arg)
          [] name = "Sbc" -> CpuSbc(m, arg)
          [] name = "Xor" -> CpuXor(m, arg)
          [] name = "And" -> CpuAnd(m, arg)
          [] name = "Or" -> CpuOr(m, arg)
          [] name = "Di" -> [m EXCEPT !.cpu.ime = FALSE]
          [] name = "Ei" -> [m EXCEPT !.cpu.ime = TRUE]
          [] name = "Bit" -> CpuBit(m, arg, arg2)
          [] name = "Set" -> CpuSet(m, arg, arg2)
          [] name = "Res" -> CpuRes(m, arg, arg2)
          [] name = "Push" -> CpuPush(m, CpuGetRegisterPair(m.cpu, arg))
          [] name = "Pop" ->
                LET result == BusReadWordValue(m.bus, m.cpu.registers.sp)
                    m1 == CpuPop(m)
                IN  [m1 EXCEPT !.cpu = CpuSetRegisterPair(@, arg, result)]
          [] name = "Rst" ->
                [CpuPush(m, m.cpu.registers.pc) EXCEPT !.cpu.registers.pc = arg]
          [] name = "Call" -> CpuCall(m, arg, arg2)
          [] name = "Jp" -> CpuJp(m, arg, arg2)
          [] name = "Jr" -> CpuJr(m, arg, arg2)
          [] name = "Ret" -> CpuRet(m, arg)
          [] name = "Reti" ->
                [CpuPop(m) EXCEPT !.cpu.registers.pc =
                                      BusReadWordValue(m.bus, m.cpu.registers.sp),
                                  !.cpu.ime = TRUE]
          [] name = "Inc" -> CpuInc(m, arg)
          [] name = "Dec" -> CpuDec(m, arg)
          [] name = "Rl" -> CpuRl(m, arg)
          [] name = "Rr" -> CpuRr(m, arg)
          [] name = "Rla" -> CpuRla(m)
          [] name = "Rra" -> CpuRra(m)
          [] name = "Rlca" -> CpuRlca(m)
          [] name = "Rrca" -> CpuRrca(m)
          [] name = "Rlc" -> CpuRlc(m, arg)
          [] name = "Rrc" -> CpuRrc(m, arg)
          [] name = "Scf" -> [m EXCEPT !.cpu.flags.n = FALSE, !.cpu.flags.h = FALSE,
                                       !.cpu.flags.c = TRUE]
          [] name = "Ccf" -> [m EXCEPT !.cpu.flags.n = FALSE, !.cpu.flags.h = FALSE,
                                       !.cpu.flags.c = ~m.cpu.flags.c]
          [] name = "Sla" -> CpuSla(m, arg)
          [] name = "Sra" -> CpuSra(m, arg)
          [] name = "Srl" -> CpuSrl(m, arg)
          [] name = "Swap" -> CpuSwap(m, arg)
          [] name = "Cp" -> CpuCp(m, arg)
          [] name = "Cpl" -> [m EXCEPT !.cpu.registers.a = 255 - @,
                                       !.cpu.flags.n = TRUE, !.cpu.flags.h = TRUE]
          [] OTHER -> CpuPanic(m)

\* `cpu.execute(instruction)` of the harness loop, after fetch left the machine
\* m1 and decode the instruction and the machine instruction.m, when neither
\* panicked
CpuStepExecute(m1, instruction) ==
    IF m1.bus.panicked THEN m1
    ELSE IF instruction.m.bus.panicked THEN instruction.m
    ELSE CpuExecute(instruction.m, instruction)

\* `cpu.decode(opcode)` and `cpu.execute(instruction)` of the harness loop,
\* after fetch returned opcode and left the machine m1
CpuStepDecode(m1, opcode) == CpuStepExecute(m1, CpuDecode(m1, opcode))

\* one turn of the harness loop: `let opcode = cpu.fetch(); let instruction =
\* cpu.decode(opcode); cpu.execute(instruction);`
CpuStep(m) == CpuStepDecode(CpuFetchImm8(m), BusPeekByte(m.bus, m.cpu.registers.pc))

-----------------------------------------------------------------------------
(* What the actions record.                                                *)

\* the composite signal of the timer: the selected sysclock bit AND enable
Composite(t) == t.tima_enable /\ Bit(t.sysclock, ClockShift(t.clock_select)) = 1

\* IE & IF & 0x1F
Pending(b) == BitAnd(BitAnd(b.interrupt_enable, b.interrupt_flags), \h1F)

\* the record of an operation: its name and arguments, the value it returned,
\* the arm a read took, TIMA and IF as they were after the access and before
\* the tick (mid is the bus then) and whether the timer's tick then finds the
\* edge it increments TIMA on, the composite signal before the operation
\* and before the tick, the Cpu, the bus, IE and IF before the operation, the
\* instruction of the operation before and the Cpu and the bus before that
\* one, and the image given to from_rom
Observe(op, address, value, result, target, mid, instruction) ==
    [op |-> op, address |-> address, value |-> value, result |-> result,
     target |-> target,
     tima_mid |-> mid.timer.tima,
     if_mid |-> mid.interrupt_flags,
     tick_increments |-> TimerTickIncrements(mid.timer),
     composite_before |-> Composite(bus.timer),
     composite_mid |-> Composite(mid.timer),
     cpu_before |-> cpu,
     bus_before |-> bus,
     ie_before |-> bus.interrupt_enable,
     if_before |-> bus.interrupt_flags,
     instruction |-> instruction,
     prev_instruction |-> "",
     prev_cpu_before |-> cpu,
     prev_bus_before |-> bus,
     rom |-> CartridgeNone.rom]

\* whether a byte written at address by op reaches port
Hits(obs, port) ==
    \/ obs.op = "write_byte" /\ obs.address = port
    \/ obs.op = "write_word" /\ port \in {obs.address, WrappingAdd16(obs.address, 1)}

\* whether address is in 0x2000..=0x3FFF, where a cartridge has its ROM-bank register
BankPort(address) == address >= \h2000 /\ address <= \h3FFF

\* the bytes op wrote to 0x2000..=0x3FFF, the last one last
BankBytes(obs) ==
    IF obs.op = "write_byte"
    THEN IF BankPort(obs.address) THEN <<obs.value>> ELSE <<>>
    ELSE IF obs.op = "write_word"
    THEN (IF BankPort(obs.address) THEN <<obs.value % 256>> ELSE <<>>)
         \o (IF BankPort(WrappingAdd16(obs.address, 1)) THEN <<obs.value \div 256>> ELSE <<>>)
    ELSE <<>>

\* the counters after an operation that made `transactions` byte transactions
\* and `direct` direct calls of tick
Count(obs, transactions, direct) ==
    [hist EXCEPT !.ops = @ + 1,
                 !.transactions = @ + transactions,
                 !.direct_ticks = @ + direct,
                 !.div_written = @ \/ Hits(obs, \hFF04) \/ obs.op = "set_post_boot_state",
                 !.bank_written =
                     IF BankBytes(obs) = <<>> THEN @
                     ELSE <<BankBytes(obs)[Len(BankBytes(obs))]>>,
                 !.ff50_written =
                     \/ @
                     \/ obs.op = "write_byte" /\ obs.address = \hFF50 /\ obs.value > 0
                     \/ obs.op = "write_word" /\ obs.address = \hFF50 /\ obs.value % 256 > 0
                     \/ obs.op = "write_word" /\ obs.address = \hFF4F /\ obs.value \div 256 > 0]

\* an operation of the bus interface that leaves the bus as post; a panic
\* leaves only the mark
Commit(post, obs, transactions, direct) ==
    /\ ~bus.panicked
    /\ bus' = IF post.panicked THEN [bus EXCEPT !.panicked = TRUE] ELSE post
    /\ last' = obs
    /\ hist' = IF post.panicked THEN [hist EXCEPT !.ops = @ + 1]
               ELSE Count(obs, transactions, direct)
    /\ UNCHANGED <<cpu, overflow_checks>>

-----------------------------------------------------------------------------
(* The operations of the Bus trait, as a caller of DmgBus makes them.      *)

ReadByte(address) ==
    Commit(BusReadByte(bus, address),
           Observe("read_byte", address, 0, BusPeekByte(bus, address),
                   BusPeekTarget(bus, address), bus, ""),
           1, 0)

\* peek_byte made through read_byte: the byte, and a tick
PeekByteTicks(address) ==
    Commit(BusReadByte(bus, address),
           Observe("peek_byte", address, 0, BusPeekByte(bus, address),
                   BusPeekTarget(bus, address), bus, ""),
           1, 0)

PeekByte(address) ==
    Commit(IF BusPeekPanics(bus, address) THEN [bus EXCEPT !.panicked = TRUE] ELSE bus,
           Observe("peek_byte", address, 0, BusPeekByte(bus, address),
                   BusPeekTarget(bus, address), bus, ""),
           0, 0)

ReadWord(address) ==
    Commit(BusReadWord(bus, address),
           Observe("read_word", address, 0, BusReadWordValue(bus, address),
                   BusPeekTarget(bus, address), bus, ""),
           2, 0)

WriteByte(address, value) ==
    Commit(BusWriteByte(bus, address, value),
           Observe("write_byte", address, value, 0, "",
                   BusWriteAccess(bus, address, value), ""),
           1, 0)

WriteWord(address, value) ==
    Commit(BusWriteWord(bus, address, value),
           Observe("write_word", address, value, 0, "", bus, ""),
           2, 0)

Tick ==
    Commit(BusTick(bus), Observe("tick", 0, 0, 0, "", bus, ""), 0, 1)

SetBootRom(bootrom) ==
    Commit(BusSetBootRom(bus, bootrom),
           Observe("set_boot_rom", 0, 0, 0, "", bus, ""), 0, 0)

SetPostBootState ==
    Commit(BusSetPostBootState(bus),
           Observe("set_post_boot_state", 0, 0, 0, "", bus, ""), 0, 0)

SetInterruptEnable(flags) ==
    Commit(BusSetInterruptEnable(bus, flags),
           Observe("set_interrupt_enable", 0, flags, 0, "", bus, ""), 0, 0)

SetInterruptFlags(flags) ==
    Commit(BusSetInterruptFlags(bus, flags),
           Observe("set_interrupt_flags", 0, flags, 0, "", bus, ""), 0, 0)

\* `bus.insert_cartridge(cartridge::from_rom(rom))`
InsertCartridge(rom) ==
    Commit(IF FromRomPanics(rom) THEN [bus EXCEPT !.panicked = TRUE]
           ELSE BusInsertCartridge(bus, FromRom(rom)),
           [Observe("insert_cartridge", 0, 0, 0, "", bus, "") EXCEPT !.rom = rom], 0, 0)

RemoveCartridge ==
    Commit(BusRemoveCartridge(bus),
           Observe("remove_cartridge", 0, 0, 0, "", bus, ""), 0, 0)

\* one instruction: fetch, decode, execute
\* the step that leaves the machine m and was decoded as the instruction of the
\* given name: a panic keeps the Cpu and marks the bus
StepTo(m, name) ==
    /\ ~bus.panicked
    /\ bus' = IF m.bus.panicked THEN [bus EXCEPT !.panicked = TRUE] ELSE m.bus
    /\ cpu' = IF m.bus.panicked THEN cpu ELSE m.cpu
    /\ last' = [Observe("step", cpu.registers.pc, BusPeekByte(bus, cpu.registers.pc),
                        0, "", bus, name)
                   EXCEPT !.prev_instruction = last.instruction,
                          !.prev_cpu_before = last.cpu_before,
                          !.prev_bus_before = last.bus_before]
    /\ hist' = [hist EXCEPT !.ops = @ + 1]
    /\ UNCHANGED overflow_checks

Step ==
    StepTo(CpuStep([cpu |-> cpu, bus |-> bus]),
           CpuDecode(CpuFetchImm8([cpu |-> cpu, bus |-> bus]),
                     BusPeekByte(bus, cpu.registers.pc)).name)

-----------------------------------------------------------------------------
(* The inputs the operations are tried with.                               *)

\* one address or more of each target the bus interface is tried on
BusAddrs == {\h0000, \h00FF, \h0100, \h4000, \hC000, \hFF04, \hFF0F, \hFF50, \hFFFF}

\* the addresses the word operations are tried on
WordAddrs == {\h00FF, \hC000}

\* the bytes written
Values == {\h00, \h01, \hFF}

\* the words written
Words == {\h0100, \hFF00}

\* the values given to set_interrupt_enable and set_interrupt_flags
Flags == {\h00, \h04}

\* the vectors given to set_boot_rom: a boot ROM of 256 bytes, and a short one
BootRom == [len |-> 256, data |-> (0 :> \h31 @@ 255 :> \h50)]
ShortBootRom == [len |-> 255, data |-> (0 :> \h31)]
BootRoms == {BootRom, ShortBootRom}

\* the images given to from_rom: a 32 KiB image without controller, a
\* 128 KiB MBC1 image with 8 KiB of RAM, an image with an unknown controller,
\* an image that ends before its header, an image whose length is not the one
\* its header declares, an image with ROM size 9, an image with RAM size 1,
\* and an 8 MiB MBC1 image (ROM size 8) with RAM size 5
RomShort == [len |-> 256, mbc |-> 0, rom_size |-> 0, ram_size |-> 0, fill |-> \hC3]
RomWrongLength == [len |-> 32768, mbc |-> 0, rom_size |-> 1, ram_size |-> 0, fill |-> \hC3]
RomTooBig == [len |-> 16777216, mbc |-> 1, rom_size |-> 9, ram_size |-> 0, fill |-> \h3C]
RomBadRam == [len |-> 32768, mbc |-> 0, rom_size |-> 0, ram_size |-> 1, fill |-> \hC3]
RomMax == [len |-> 8388608, mbc |-> 1, rom_size |-> 8, ram_size |-> 5, fill |-> \h3C]
RomNoMbc == [len |-> 32768, mbc |-> 0, rom_size |-> 0, ram_size |-> 0, fill |-> \hC3]
RomMbc1 == [len |-> 131072, mbc |-> 1, rom_size |-> 2, ram_size |-> 2, fill |-> \h3C]
RomUnknown == [len |-> 32768, mbc |-> 2, rom_size |-> 0, ram_size |-> 0, fill |-> \hC3]
RomImages ==
    {RomNoMbc, RomMbc1, RomUnknown, RomShort, RomWrongLength, RomTooBig, RomBadRam, RomMax}

\* the timer registers read, and the writes made to them and to IF
TimerReads == {\hFF04, \hFF05}
TimerWrites ==
    {<<\hFF04, \h00>>, <<\hFF05, \hFF>>, <<\hFF06, \h42>>,
     <<\hFF07, \h05>>, <<\hFF07, \h01>>, <<\hFF07, \h04>>, <<\hFF0F, \h00>>}

\* the sysclock values a run of SpecTimer starts from: a new bus, a bus after
\* set_post_boot_state, and a new bus whose sysclock is about to wrap
InitSysclocks == {\h0000, \h00AB, \hFFF0}

\* where the harness puts the program and the stack of a run of SpecCpu
ProgramBase == \hC000 + 0
StackTop == \hD000 + 0

\* the opcodes of the programs: NOP, STOP, DAA, HALT, RST 08h, RETI, DI, EI
ProgramOpcodes == {\h00, \h10, \h27, \h76, \hCF, \hD9, \hF3, \hFB}

\* the values the harness writes to IE (0xFFFF) and IF (0xFF0F)
InitIE == {\h00, \h05}
InitIF == {\h00, \h04, \h05}

-----------------------------------------------------------------------------
(* The specifications.                                                     *)

HistInit(sysclock, transactions) ==
    [ops |-> 0, transactions |-> transactions, direct_ticks |-> 0,
     sysclock_initial |-> sysclock, div_written |-> FALSE, ff50_written |-> FALSE,
     bank_written |-> <<>>]

\* Spec: the bus interface.  The emulator is constructed as the front end
\* does it: DmgBus::new(), then set_boot_rom if a boot ROM is given and
\* insert_cartridge(from_rom(rom)) if a ROM is given.
Init ==
    /\ \E boot \in BOOLEAN, rom \in {RomNoMbc, RomMbc1}, cart \in BOOLEAN :
          bus = LET b1 == IF boot THEN BusSetBootRom(BusDefault, BootRom) ELSE BusDefault
                IN  IF cart THEN BusInsertCartridge(b1, FromRom(rom)) ELSE b1
    /\ cpu = CpuDefault
    /\ overflow_checks \in BOOLEAN
    /\ last = Observe("new", 0, 0, 0, "", bus, "")
    /\ hist = HistInit(0, 0)

Next ==
    \/ \E address \in BusAddrs : hist.ops < MaxOps /\ ReadByte(address)
    \/ \E address \in BusAddrs : hist.ops < MaxOps /\ PeekByte(address)
    \/ \E address \in WordAddrs : hist.ops < MaxOps /\ ReadWord(address)
    \/ \E address \in BusAddrs, value \in Values :
          hist.ops < MaxOps /\ WriteByte(address, value)
    \/ \E address \in WordAddrs, value \in Words :
          hist.ops < MaxOps /\ WriteWord(address, value)
    \/ hist.ops < MaxOps /\ Tick
    \/ \E bootrom \in BootRoms : hist.ops < MaxOps /\ SetBootRom(bootrom)
    \/ hist.ops < MaxOps /\ SetPostBootState
    \/ \E flags \in Flags : hist.ops < MaxOps /\ SetInterruptEnable(flags)
    \/ \E flags \in Flags : hist.ops < MaxOps /\ SetInterruptFlags(flags)
    \/ \E rom \in RomImages : hist.ops < MaxOps /\ InsertCartridge(rom)
    \/ hist.ops < MaxOps /\ RemoveCartridge

Spec == Init /\ [][Next]_vars

\* SpecTimer: the timer behind the bus, one M-cycle per operation
InitTimer ==
    /\ \E sysclock \in InitSysclocks :
          /\ bus = [BusDefault EXCEPT !.timer.sysclock = sysclock]
          /\ hist = HistInit(sysclock, 0)
    /\ cpu = CpuDefault
    /\ overflow_checks \in BOOLEAN
    /\ last = Observe("new", 0, 0, 0, "", bus, "")

NextTimer ==
    \/ \E address \in TimerReads : hist.ops < MaxTimerOps /\ ReadByte(address)
    \/ \E w \in TimerWrites : hist.ops < MaxTimerOps /\ WriteByte(w[1], w[2])

SpecTimer == InitTimer /\ [][NextTimer]_vars

RECURSIVE LoadBytes(_, _)
\* the harness loading memory: `for [ram_address, value] in cpu_state.ram
\* { cpu.bus.write_byte(ram_address, value as u8); }`
LoadBytes(b, ram) ==
    IF ram = <<>> THEN b
    ELSE LoadBytes(BusWriteByte(b, Head(ram)[1], Head(ram)[2]), Tail(ram))

\* SpecCpu: the Cpu running a program the harness has loaded into work RAM,
\* with IE, IF and a return address (the program's third byte) at the stack top
InitCpu ==
    /\ \E program \in [1 .. MaxSteps -> ProgramOpcodes], ie \in InitIE, if \in InitIF :
          LET ram == <<<<\hFFFF, ie>>, <<\hFF0F, if>>,
                       <<StackTop, (ProgramBase + 2) % 256>>,
                       <<StackTop + 1, (ProgramBase + 2) \div 256>>>>
                     \o [i \in 1 .. MaxSteps |-> <<ProgramBase + i - 1, program[i]>>]
          IN  /\ bus = [LoadBytes(BusDefault, ram) EXCEPT !.ticks = 0]
              /\ hist = HistInit(0, 0)
    /\ \E ime \in BOOLEAN :
          cpu = [CpuDefault EXCEPT !.registers.pc = ProgramBase,
                                   !.registers.sp = StackTop,
                                   !.ime = ime]
    /\ overflow_checks \in BOOLEAN
    /\ last = Observe("new", 0, 0, 0, "", bus, "")

NextCpu ==
    /\ hist.ops < MaxSteps
    /\ Step

SpecCpu == InitCpu /\ [][NextCpu]_vars

-----------------------------------------------------------------------------
(* The claims.                                                             *)

\* C1: after any sequence of read_byte and write_byte calls (word operations
\* being two of them) the bus has ticked once per byte transaction, direct
\* calls of tick aside; every tick calls the display and then the timer; and
\* the access comes before the tick: a read of DIV returns the high byte of
\* the sysclock the tick then advances by 4, and a write to DIV leaves the
\* sysclock at 4, the reset followed by the tick.
C1_OneTickPerTransaction ==
    ~bus.panicked =>
        /\ bus.ticks = hist.transactions + hist.direct_ticks
        /\ bus.ticks > 0 => bus.tick_order = <<"ppu", "timer">>
        /\ (last.op = "read_byte" /\ last.address = \hFF04) =>
              last.result = WrappingSub16(bus.timer.sysclock, 4) \div 256
        /\ (last.op = "write_byte" /\ last.address = \hFF04) =>
              bus.timer.sysclock = 4

\* C1's case: two transactions made, the second a write to DIV
C1_Witness ==
    /\ ~bus.panicked
    /\ hist.transactions = 2
    /\ bus.ticks = 2
    /\ last.op = "write_byte"
    /\ last.address = \hFF04

\* C2: executing EI does not make IME true during EI itself: when IME was
\* false before an EI, it is still false when the EI has been executed (it
\* becomes true only after the instruction that follows), and the EI is not
\* followed by a dispatch: execution continues at the next byte.
C2_EiDelaysIme ==
    (last.op = "step" /\ last.instruction = "Ei" /\ ~bus.panicked
        /\ ~last.cpu_before.ime) =>
        /\ ~cpu.ime
        /\ cpu.registers.pc = WrappingAdd16(last.cpu_before.registers.pc, 1)

RECURSIVE LowestBit(_)
\* the number of the lowest bit set in x, x > 0
LowestBit(x) == IF x % 2 = 1 THEN 0 ELSE 1 + LowestBit(x \div 2)

\* the vector of interrupt source n: 0x40, 0x48, 0x50, 0x58, 0x60
Vector(n) == \h40 + 8 * n

\* IE & IF & 0x1F as it was before the last operation
PendingBefore == BitAnd(BitAnd(last.ie_before, last.if_before), \h1F)

\* C3: at an instruction boundary where IME is true and IE & IF & 0x1F is
\* non-zero the CPU dispatches instead of fetching: the lowest pending enabled
\* bit is cleared from IF, IME is cleared, the PC is pushed and PC is the
\* source's vector; with IME false the turn fetches and executes the opcode
\* at PC, so a NOP leaves PC one further and IF as it was.
C3_DispatchAtBoundary ==
    (last.op = "step" /\ ~bus.panicked) =>
        IF last.cpu_before.ime /\ PendingBefore # 0
        THEN LET n == LowestBit(PendingBefore)
                 sp == WrappingSub16(last.cpu_before.registers.sp, 2)
             IN  /\ cpu.registers.pc = Vector(n)
                 /\ ~cpu.ime
                 /\ Bit(bus.interrupt_flags, n) = 0
                 /\ cpu.registers.sp = sp
                 /\ BusPeekByte(bus, sp) = last.cpu_before.registers.pc % 256
                 /\ BusPeekByte(bus, WrappingAdd16(sp, 1))
                        = last.cpu_before.registers.pc \div 256
        ELSE (~last.cpu_before.ime /\ last.instruction = "Nop") =>
                 /\ cpu.registers.pc = WrappingAdd16(last.cpu_before.registers.pc, 1)
                 /\ bus.interrupt_flags = last.if_before

\* the last operation was one bus transaction: an access and then one tick
OneTransaction == last.op \in {"read_byte", "write_byte"} /\ ~bus.panicked

\* TIMA after the last operation's tick is TIMA before it, incremented (and
\* reloaded from TMA on overflow)
TimaIncremented ==
    bus.timer.tima = IF last.tima_mid = 255 THEN bus.timer.tma ELSE last.tima_mid + 1

\* C4: TIMA is incremented on every falling edge of the composite signal
\* between consecutive M-cycles: when the composite was 1 after the previous
\* tick and is 0 after this one, this tick has incremented TIMA, whichever
\* factor fell (the selected bit, the enable bit, the clock select, a DIV write).
C4_EveryFallingEdgeIncrements ==
    (OneTransaction /\ last.composite_before /\ ~Composite(bus.timer)) => TimaIncremented

\* C5: a tick changes TIMA, or requests a Timer interrupt, only when the
\* composite signal went from 1 to 0 since the previous tick (it was 1 after
\* the previous tick or after this operation's write, and is 0 now).
C5_OnlyFallingEdgeIncrements ==
    (OneTransaction
        /\ \/ bus.timer.tima # last.tima_mid
           \/ Bit(bus.interrupt_flags, 2) = 1 /\ Bit(last.if_mid, 2) = 0) =>
        /\ last.composite_before \/ last.composite_mid
        /\ ~Composite(bus.timer)

\* C6: when the tick's TIMA increment overflows from 0xFF, TIMA is TMA and IF
\* bit 2 is set after that tick; a tick without overflow leaves IF as the
\* access left it.  In particular with the timer enabled on sysclock bit 3,
\* TIMA = 0xFF and TMA = 0x42, the tick on which bit 3 falls leaves TIMA = 0x42
\* and IF bit 2 set.
C6_OverflowReloadsAndRequests ==
    OneTransaction =>
        /\ (last.tick_increments /\ last.tima_mid = 255) =>
              /\ bus.timer.tima = bus.timer.tma
              /\ Bit(bus.interrupt_flags, 2) = 1
              /\ bus.interrupt_flags = BitOr(last.if_mid, 4)
        /\ ~(last.tick_increments /\ last.tima_mid = 255) =>
              bus.interrupt_flags = last.if_mid
        /\ (/\ bus.timer.tima_enable /\ bus.timer.clock_select = 1
            /\ last.composite_before /\ last.composite_mid /\ ~Composite(bus.timer)
            /\ last.tima_mid = \hFF /\ bus.timer.tma = \h42) =>
              /\ bus.timer.tima = \h42
              /\ Bit(bus.interrupt_flags, 2) = 1

\* C6's case: TAC = 0x05, TIMA was 0xFF, TMA = 0x42, and the tick has reloaded
\* TIMA and raised IF bit 2
C6_Witness ==
    /\ OneTransaction
    /\ BusPeekByte(bus, \hFF07) = \hFD
    /\ last.tima_mid = \hFF
    /\ bus.timer.tma = \h42
    /\ bus.timer.tima = \h42
    /\ Bit(last.if_mid, 2) = 0
    /\ Bit(bus.interrupt_flags, 2) = 1

\* C7: after N >= 1 ticks without a write to DIV, DIV reads as
\* ((sysclock_initial + 4 * N) mod 2^16) >> 8, whatever TAC, TIMA and TMA hold:
\* a peek now sees the value for all the ticks made, and a read_byte of DIV
\* returned the value for the ticks made before its own.
C7_DivFollowsSysclock ==
    (~bus.panicked /\ ~hist.div_written) =>
        /\ bus.ticks >= 1 =>
              BusPeekByte(bus, \hFF04)
                  = ((hist.sysclock_initial + 4 * bus.ticks) % 65536) \div 256
        /\ (last.op = "read_byte" /\ last.address = \hFF04 /\ bus.ticks >= 2) =>
              last.result
                  = ((hist.sysclock_initial + 4 * (bus.ticks - 1)) % 65536) \div 256

\* C7's case: DIV read after the sysclock has wrapped, the timer running
C7_Witness ==
    /\ ~bus.panicked /\ ~hist.div_written
    /\ hist.sysclock_initial = \hFFF0
    /\ bus.ticks >= 5
    /\ last.op = "read_byte" /\ last.address = \hFF04 /\ last.result = 0
    /\ bus.timer.tima_enable
    /\ bus.timer.tima # 0

\* the last operation was a read of one byte that returned
OneRead == last.op \in {"read_byte", "peek_byte"} /\ ~bus.panicked

\* C8: in every reachable bus state, the fresh bus included, a read of 0xFF0F
\* through read_byte or peek_byte returns a value with bits 5, 6 and 7 all 1.
C8_IfUpperBitsRead ==
    ~bus.panicked =>
        /\ BusPeekByte(bus, \hFF0F) \div 32 = 7
        /\ (OneRead /\ last.address = \hFF0F) => last.result \div 32 = 7

\* C9: once a non-zero value has been written to 0xFF50 the boot-ROM enable
\* latch is false, and it stays false under every later operation of the bus.
C9_LatchOneWay == hist.ff50_written => ~bus.bootrom_enabled

\* C10: while the boot-ROM latch is set a read of 0x0000-0x00FF returns the
\* boot-ROM byte at that offset and takes no cartridge arm, and a read of
\* 0x0100-0x7FFF returns the cartridge's byte; with the latch cleared a read
\* of 0x0000-0x00FF returns the cartridge's byte.
C10_BootRomOverlay ==
    (OneRead /\ last.address <= \h7FFF) =>
        IF bus.bootrom_enabled /\ last.address <= \h00FF
        THEN /\ last.target = "bootrom"
             /\ last.result = Load(BootRom.data, last.address)
        ELSE /\ last.target = "cartridge"
             /\ bus.cartridge.kind # "None" =>
                   /\ last.result = CartridgeReadByte(bus.cartridge, last.address)
                   /\ last.address <= \h3FFF =>
                         last.result = RomByte(bus.cartridge.rom, last.address)

\* C10's case: the boot ROM was mapped and has been unmapped through 0xFF50,
\* and a read of 0x0000 has returned the cartridge's byte, not the boot ROM's
C10_Witness ==
    /\ OneRead /\ last.op = "read_byte" /\ last.address = \h0000
    /\ hist.ff50_written /\ ~bus.bootrom_enabled
    /\ bus.cartridge.kind # "None"
    /\ Load(bus.bootrom, 0) = \h31
    /\ last.result = \hC3

-----------------------------------------------------------------------------
(* SpecMem: the RAM regions behind the bus.                                *)

\* the number of operations in a run of SpecMem
MaxMemOps == 2

\* the first and last byte of VRAM, work RAM, echo RAM, OAM and high RAM, and
\* the last byte of work RAM that has an echo
MemAddrs ==
    {\h8000, \h9FFF, \hC000, \hDDFF, \hDFFF, \hE000, \hFDFF,
     \hFE00, \hFE9F, \hFF80, \hFFFE}

\* the bytes written to them
MemValues == {\h00, \h5A, \hFF}

\* the addresses read_word is tried on: inside work RAM, across the end of
\* work RAM, across the byte before DIV, and the last address
MemWordAddrs == {\hC000, \hDFFF, \hFF03, \hFFFF}

\* a new bus, and a new bus after 63 ticks (the next tick carries into DIV)
MemSysclocks == {\h0000, \h00FC}

InitMem ==
    /\ \E sysclock \in MemSysclocks :
          /\ bus = [BusDefault EXCEPT !.timer.sysclock = sysclock]
          /\ hist = HistInit(sysclock, 0)
    /\ cpu = CpuDefault
    /\ overflow_checks \in BOOLEAN
    /\ last = Observe("new", 0, 0, 0, "", bus, "")

NextMem ==
    \/ \E address \in MemAddrs : hist.ops < MaxMemOps /\ ReadByte(address)
    \/ \E address \in MemAddrs : hist.ops < MaxMemOps /\ PeekByte(address)
    \/ \E address \in MemAddrs, value \in MemValues :
          hist.ops < MaxMemOps /\ WriteByte(address, value)
    \/ \E address \in MemWordAddrs : hist.ops < MaxMemOps /\ ReadWord(address)
    \/ hist.ops < MaxMemOps /\ WriteWord(\hDFFF, \hA55A)

SpecMem == InitMem /\ [][NextMem]_vars

-----------------------------------------------------------------------------

\* every byte of `after` but the one at off is the byte of `before`
SameExcept(after, before, off) ==
    \A o \in (DOMAIN after \cup DOMAIN before) \ {off} : Load(after, o) = Load(before, o)

\* the region of address among VRAM, work RAM, OAM and high RAM, and its
\* offset there; "" for any other address
Region(address) ==
    IF address >= \h8000 /\ address <= \h9FFF THEN <<"vram", address - \h8000>>
    ELSE IF address >= \hC000 /\ address <= \hDFFF THEN <<"wram", address - \hC000>>
    ELSE IF address >= \hFE00 /\ address <= \hFE9F THEN <<"oam", address - \hFE00>>
    ELSE IF address >= \hFF80 /\ address <= \hFFFE THEN <<"hram", address - \hFF80>>
    ELSE <<"", 0>>

\* the four arrays of a bus, by region
Arrays(b) ==
    [vram |-> b.ppu.vram, wram |-> b.wram, oam |-> b.ppu.oam, hram |-> b.hram]

\* C11: for an address a of work RAM, high RAM, VRAM or OAM, write_byte(a, v)
\* followed by peek_byte(a) returns v, and every other byte of the four
\* regions is what it was before the write.
C11_WriteThenPeek ==
    (last.op = "write_byte" /\ ~bus.panicked /\ Region(last.address)[1] # "") =>
        /\ BusPeekByte(bus, last.address) = last.value
        /\ \A r \in {"vram", "wram", "oam", "hram"} :
              IF r = Region(last.address)[1]
              THEN SameExcept(Arrays(bus)[r], Arrays(last.bus_before)[r],
                              Region(last.address)[2])
              ELSE Arrays(bus)[r] = Arrays(last.bus_before)[r]

\* C11's case: a byte written to the last byte of high RAM reads back, with
\* an earlier byte of another region still in place
C11_Witness ==
    /\ last.op = "write_byte" /\ ~bus.panicked
    /\ last.address = \hFFFE /\ last.value = \h5A
    /\ BusPeekByte(bus, \hFFFE) = \h5A
    /\ BusPeekByte(bus, \h9FFF) = \hFF

\* the offsets the echo alias is probed at: the first and the last
EchoProbes == {\h0000, \h1DFF}

\* C13: echo RAM aliases work RAM: in every state the bytes read at 0xE000+k
\* and 0xC000+k are the same, a byte written at 0xE000+k is the byte then read
\* at 0xC000+k, and a byte written at 0xC000+k is the byte then read at 0xE000+k.
C13_EchoAliasesWram ==
    ~bus.panicked =>
        /\ \A k \in EchoProbes :
              BusPeekByte(bus, \hC000 + k) = BusPeekByte(bus, \hE000 + k)
        /\ (last.op = "write_byte" /\ last.address >= \hE000 /\ last.address <= \hFDFF) =>
              BusPeekByte(bus, last.address - \h2000) = last.value
        /\ (last.op = "write_byte" /\ last.address >= \hC000 /\ last.address <= \hDDFF) =>
              BusPeekByte(bus, last.address + \h2000) = last.value
        /\ (last.op = "read_byte" /\ last.address >= \hE000 /\ last.address <= \hFDFF) =>
              last.result = Load(last.bus_before.wram, last.address - \hE000)

\* C13's case: a byte written through the last echo address, over another
\* byte, is the byte at the work-RAM address 0x2000 below it
C13_Witness ==
    /\ last.op = "write_byte" /\ ~bus.panicked
    /\ last.address = \hFDFF /\ last.value = \h5A
    /\ BusPeekByte(last.bus_before, \hDDFF) = \hFF
    /\ BusPeekByte(bus, \hDDFF) = \h5A

\* C14: read_word(a) returns (peek_byte(a+1) << 8) | peek_byte(a), both peeks
\* made in the state before the call, for every address a, and leaves the bus
\* as two ticks leave it.
C14_ReadWordIsTwoPeeks ==
    last.op = "read_word" =>
        /\ ~bus.panicked
        /\ last.result =
              (BusPeekByte(last.bus_before, (last.address + 1) % 65536) * 256)
                  + BusPeekByte(last.bus_before, last.address)
        /\ bus = BusTick(BusTick(last.bus_before))

-----------------------------------------------------------------------------
(* SpecCart: an MBC1 or NoMbc cartridge behind the bus.                    *)

\* the number of operations in a run of SpecCart
MaxCartOps == 3

\* a 128 KiB MBC1 image whose header declares no RAM
RomMbc1NoRam == [len |-> 131072, mbc |-> 1, rom_size |-> 2, ram_size |-> 0, fill |-> \h3C]

\* the addresses written: RAM enable, ROM bank (first and last), cartridge RAM
CartWriteAddrs == {\h0000, \h2000, \h3FFF, \hA000}

\* the bytes written: enable and bank values with low nibble 0xA, other low
\* nibbles with a bit of 0x0A set or none, banks 2 and 3, and bytes above 0x1F
CartValues == {\h00, \h02, \h03, \h0A, \h20, \hFF}

\* the addresses read: bank 0 (first and last), the switchable bank (first,
\* second and last), cartridge RAM (first and last)
CartReadAddrs == {\h0000, \h3FFF, \h4000, \h4001, \h7FFF, \hA000, \hBFFF}

\* `bus.insert_cartridge(cartridge::from_rom(rom))` on a new bus
InitCart ==
    /\ \E rom \in {RomMbc1, RomMbc1NoRam, RomNoMbc} :
          bus = BusInsertCartridge(BusDefault, FromRom(rom))
    /\ cpu = CpuDefault
    /\ overflow_checks \in BOOLEAN
    /\ last = Observe("new", 0, 0, 0, "", bus, "")
    /\ hist = HistInit(0, 0)

NextCart ==
    \/ \E address \in CartReadAddrs : hist.ops < MaxCartOps /\ ReadByte(address)
    \/ \E address \in CartReadAddrs : hist.ops < MaxCartOps /\ PeekByte(address)
    \/ \E address \in CartWriteAddrs, value \in CartValues :
          hist.ops < MaxCartOps /\ WriteByte(address, value)

SpecCart == InitCart /\ [][NextCart]_vars

-----------------------------------------------------------------------------

\* the bus holds an MBC1 cartridge
IsMbc1 == bus.cartridge.kind = "Mbc1"

\* whether address is in 0xA000..=0xBFFF
CartRam(address) == address >= \hA000 /\ address <= \hBFFF

\* C12: for an MBC1 cartridge with RAM and the RAM-enable latch set,
\* write_byte(a, v) with a in 0xA000-0xBFFF followed by peek_byte(a) returns
\* v without failing, and a write to the ROM-bank register leaves the
\* cartridge RAM as it was.
C12_CartRamWriteThenPeek ==
    (IsMbc1 /\ last.op = "write_byte" /\ ~bus.panicked) =>
        /\ (CartRam(last.address) /\ bus.cartridge.ram.some /\ bus.cartridge.ram_enabled) =>
              /\ ~BusPeekPanics(bus, last.address)
              /\ BusPeekByte(bus, last.address) = last.value
        /\ BankPort(last.address) =>
              bus.cartridge.ram = last.bus_before.cartridge.ram

\* C16: for an MBC1 cartridge, once a byte v has been written to
\* 0x2000-0x3FFF the ROM-bank register is v & 0x1F, with 0 stored as 1, so it
\* is a value in 1..=31, until the next such write.
C16_BankRegisterFiveBits ==
    (IsMbc1 /\ ~bus.panicked /\ hist.bank_written # <<>>) =>
        LET low == BitAnd(hist.bank_written[1], \h1F)
        IN  /\ bus.cartridge.active_bank = IF low = 0 THEN 1 ELSE low
            /\ bus.cartridge.active_bank \in 1 .. 31

\* the last operation was a read of one byte from an MBC1 cartridge
CartRead == IsMbc1 /\ last.op \in {"read_byte", "peek_byte"} /\ last.target = "cartridge"

\* the bank an MBC1 read of 0x4000-0x7FFF selects: the register, plus one
\* when it is 0x00, 0x20, 0x40 or 0x60
SelectedBank ==
    IF bus.cartridge.active_bank \in {\h00, \h20, \h40, \h60}
    THEN bus.cartridge.active_bank + 1
    ELSE bus.cartridge.active_bank

\* C17: for an MBC1 cartridge a read of a in 0x4000-0x7FFF returns the ROM
\* byte at bank * 0x4000 + (a - 0x4000) for the selected bank, a read of a in
\* 0x0000-0x3FFF returns the ROM byte at a whatever the bank register holds,
\* and neither fails when the ROM contains the selected bank.
C17_BankedRead ==
    CartRead =>
        /\ last.address <= \h3FFF =>
              /\ ~bus.panicked
              /\ last.result = RomByte(bus.cartridge.rom, last.address)
        /\ (/\ last.address >= \h4000 /\ last.address <= \h7FFF
            /\ (SelectedBank + 1) * \h4000 <= bus.cartridge.rom.len) =>
              /\ ~bus.panicked
              /\ last.result = RomByte(bus.cartridge.rom,
                                       SelectedBank * \h4000 + (last.address - \h4000))

\* C18: with a 128 KiB MBC1 ROM, after 0x20 was written to 0x2000 a read of
\* 0x4000 completes and returns the first byte of bank 0x21 (which a ROM of
\* 8 banks holds as its bank 1), not the first byte of bank 0x20 (its bank 0).
C18_Bank20ReadsBank21 ==
    (/\ CartRead /\ last.address = \h4000
     /\ bus.cartridge.rom.len = 131072
     /\ hist.bank_written = <<\h20>>) =>
        /\ ~bus.panicked
        /\ last.result = RomByte(bus.cartridge.rom, (\h21 * \h4000) % 131072)
        /\ last.result # RomByte(bus.cartridge.rom, (\h20 * \h4000) % 131072)

\* C19: for an MBC1 cartridge, after a byte v is written to 0x0000-0x1FFF the
\* RAM-enable latch is set if and only if the low nibble of v is 0xA.
C19_RamEnableLowNibble ==
    (IsMbc1 /\ last.op = "write_byte" /\ ~bus.panicked /\ last.address <= \h1FFF) =>
        (bus.cartridge.ram_enabled <=> last.value % 16 = \h0A)

\* C20: for an MBC1 cartridge a read of a in 0xA000-0xBFFF completes, and
\* returns the cartridge-RAM byte at a - 0xA000 when the latch is set and the
\* header declares RAM, and 0xFF otherwise.
C20_CartRamRead ==
    (CartRead /\ CartRam(last.address)) =>
        /\ ~bus.panicked
        /\ last.result =
              IF bus.cartridge.ram_enabled /\ bus.cartridge.rom.ram_size # 0
              THEN Load(bus.cartridge.ram.data, last.address - \hA000)
              ELSE \hFF

-----------------------------------------------------------------------------

\* the last operation was one instruction, of this name
Stepped(name) == last.op = "step" /\ last.instruction = name

\* the word in memory at address before the last operation, little-endian
WordBefore(address) ==
    BusPeekByte(last.bus_before, WrappingAdd16(address, 1)) * 256
        + BusPeekByte(last.bus_before, address)

\* the word in memory at address now, little-endian
WordNow(address) ==
    BusPeekByte(bus, WrappingAdd16(address, 1)) * 256 + BusPeekByte(bus, address)

\* C24: RETI pops the return address into PC, SP increases by 2, and IME is
\* true as soon as RETI completes.
C24_RetiEnablesAtOnce ==
    (Stepped("Reti") /\ ~bus.panicked) =>
        /\ cpu.registers.pc = WordBefore(last.cpu_before.registers.sp)
        /\ cpu.registers.sp = WrappingAdd16(last.cpu_before.registers.sp, 2)
        /\ cpu.ime

\* C24's case: RETI executed with IME clear has returned to the address on
\* the stack with IME set
C24_Witness ==
    /\ Stepped("Reti") /\ ~bus.panicked
    /\ ~last.cpu_before.ime /\ cpu.ime
    /\ last.cpu_before.registers.sp = StackTop
    /\ cpu.registers.pc = ProgramBase + 2
    /\ cpu.registers.sp = StackTop + 2

\* C25: HALT executes and the CPU then fetches no opcode while
\* IE & IF & 0x1F is zero; once it is non-zero the CPU goes on, whatever IME
\* is, and with IME false it executes the next instruction without a dispatch.
C25_HaltSuspendsFetch ==
    last.op = "step" =>
        /\ last.instruction = "Halt" =>
              /\ ~bus.panicked
              /\ cpu.registers.pc = WrappingAdd16(last.cpu_before.registers.pc, 1)
        /\ (last.prev_instruction = "Halt" /\ PendingBefore = 0) =>
              /\ ~bus.panicked
              /\ cpu.registers.pc = last.cpu_before.registers.pc
        /\ (last.prev_instruction = "Halt" /\ PendingBefore # 0 /\ ~last.cpu_before.ime) =>
              /\ ~bus.panicked
              /\ cpu.registers.pc # Vector(LowestBit(PendingBefore))
              /\ bus.interrupt_flags = last.if_before

\* C26: fetch, decode and execute of an opcode that is not one of the 11
\* illegal ones complete without a fatal error, HALT, STOP and DAA included.
C26_LegalOpcodesComplete ==
    (last.op = "step" /\ last.value \notin IllegalOpcodes) => ~bus.panicked

\* A after DAA, from A and the flags before
DaaResult(a, f) ==
    IF ~f.n
    THEN (a + (IF f.c \/ a > \h99 THEN \h60 ELSE 0)
            + (IF f.h \/ a % 16 > 9 THEN \h06 ELSE 0)) % 256
    ELSE (a + 512 - (IF f.c THEN \h60 ELSE 0) - (IF f.h THEN \h06 ELSE 0)) % 256

\* C27: DAA with N=0 adds 0x60 and sets C if C was set or A > 0x99, and adds
\* 0x06 if H was set or the low nibble of A > 9; with N=1 it subtracts 0x60
\* if C was set and 0x06 if H was set; then Z is set iff the result is 0, H
\* is cleared and N is unchanged.
C27_Daa ==
    Stepped("Daa") =>
        LET a == last.cpu_before.registers.a
            f == last.cpu_before.flags
        IN  /\ ~bus.panicked
            /\ cpu.registers.a = DaaResult(a, f)
            /\ cpu.flags.z = (DaaResult(a, f) = 0)
            /\ cpu.flags.h = FALSE
            /\ cpu.flags.n = f.n
            /\ cpu.flags.c = (f.c \/ (~f.n /\ a > \h99))

\* C28: an RST opcode pushes the address of the byte after it and sets PC to
\* the opcode's bits 3-5 times 8: 0x00, 0x08, ..., 0x38.
C28_RstVector ==
    (Stepped("Rst") /\ ~bus.panicked) =>
        /\ cpu.registers.pc = BitAnd(last.value, \h38)
        /\ cpu.registers.sp = WrappingSub16(last.cpu_before.registers.sp, 2)
        /\ WordNow(cpu.registers.sp) = WrappingAdd16(last.cpu_before.registers.pc, 1)

-----------------------------------------------------------------------------
(* SpecStack: PUSH rp followed by POP r.                                   *)

\* the number of instructions in a run of SpecStack
MaxStackSteps == 2

\* the values BC starts with; DE and HL start 0x0101 and 0x0202 above it,
\* and A starts as its high byte
PairValues == {\h0000, \h12F3, \hFFFF}

\* the flags the Cpu starts with: none, all, Z and C
FlagSets ==
    {[z |-> FALSE, n |-> FALSE, h |-> FALSE, c |-> FALSE],
     [z |-> TRUE, n |-> TRUE, h |-> TRUE, c |-> TRUE],
     [z |-> TRUE, n |-> FALSE, h |-> FALSE, c |-> TRUE]}

\* the stack pointers: in work RAM, across the end of work RAM into echo
\* RAM, and at the top of high RAM
StackPointers == {\hD000, \hE001, \hFFFF}

\* where the harness puts the program of a run of SpecStack: clear of the
\* work-RAM bytes the stack pointers reach, directly or through echo RAM
StackProgramBase == \hC100 + 0

\* the harness loads PUSH rp, POP r at StackProgramBase and sets the registers
InitStack ==
    /\ \E push \in PushOpcodes, pop \in PopOpcodes :
          /\ bus = [LoadBytes(BusDefault, <<<<StackProgramBase, push>>,
                                            <<StackProgramBase + 1, pop>>>>)
                       EXCEPT !.ticks = 0]
          /\ hist = HistInit(0, 0)
    /\ \E v \in PairValues, f \in FlagSets, sp \in StackPointers :
          cpu = [registers |->
                    [a |-> v \div 256,
                     b |-> v \div 256, c |-> v % 256,
                     d |-> ((v + \h0101) % 65536) \div 256, e |-> (v + \h0101) % 256,
                     h |-> ((v + \h0202) % 65536) \div 256, l |-> (v + \h0202) % 256,
                     pc |-> StackProgramBase, sp |-> sp],
                 flags |-> f,
                 ime |-> FALSE]
    /\ overflow_checks \in BOOLEAN
    /\ last = Observe("new", 0, 0, 0, "", bus, "")

NextStack ==
    /\ hist.ops < MaxStackSteps
    /\ Step

SpecStack == InitStack /\ [][NextStack]_vars

-----------------------------------------------------------------------------

\* the register pair of the last instruction, a Push or a Pop
PairNow == PushPopPair(last.value)

\* the register pair of the Push at the address before the last instruction
PairPushed == PushPopPair(BusPeekByte(bus, WrappingSub16(last.address, 1)))

C30_FlagsLowNibbleZero ==
    /\ CpuGetRegisterPair(cpu, "AF") % 16 = 0
    /\ (Stepped("Pop") /\ PairNow = "AF" /\ ~bus.panicked) =>
          CpuGetRegisterPair(cpu, "AF")
              = BitAnd(WordBefore(last.cpu_before.registers.sp), \hFFF0)

\* C30's case: POP AF of the word 0x12F3
C30_Witness ==
    /\ Stepped("Pop") /\ PairNow = "AF" /\ ~bus.panicked
    /\ WordBefore(last.cpu_before.registers.sp) = \h12F3
    /\ CpuGetRegisterPair(cpu, "AF") = \h12F0

-----------------------------------------------------------------------------

\* the bus holds a NoMbc cartridge
IsNoMbc == bus.cartridge.kind = "NoMbc"

\* C21: for a NoMbc cartridge whose header declares no RAM, a read of an
\* address in 0xA000-0xBFFF completes and returns 0xFF.
C21_NoMbcRamReadsFF ==
    (/\ IsNoMbc /\ bus.cartridge.rom.ram_size = 0
     /\ last.op \in {"read_byte", "peek_byte"} /\ CartRam(last.address)) =>
        /\ ~bus.panicked
        /\ last.result = \hFF

\* C22: a write_byte leaves every byte of the cartridge's ROM as it was, for
\* NoMbc it leaves the whole cartridge as it was, and a read of 0x0000-0x7FFF
\* of a NoMbc cartridge returns the image's byte at that address, whatever was
\* written before.
C22_RomReadOnly ==
    (~bus.panicked /\ bus.cartridge.kind # "None") =>
        /\ last.op = "write_byte" =>
              /\ bus.cartridge.rom = last.bus_before.cartridge.rom
              /\ \A a \in {\h0000, \h3FFF} :
                    BusPeekByte(bus, a) = BusPeekByte(last.bus_before, a)
              /\ IsNoMbc =>
                    /\ bus.cartridge = last.bus_before.cartridge
                    /\ \A a \in {\h4000, \h4001, \h7FFF} :
                          BusPeekByte(bus, a) = BusPeekByte(last.bus_before, a)
        /\ (IsNoMbc /\ last.op \in {"read_byte", "peek_byte"} /\ last.address <= \h7FFF) =>
              last.result = RomByte(RomNoMbc, last.address)

\* C22's case: a NoMbc cartridge after two writes to the addresses where an
\* MBC1 has its registers, the second one of 0x02 to 0x2000
C22_Witness ==
    /\ IsNoMbc /\ ~bus.panicked
    /\ last.op = "write_byte" /\ last.address = \h2000 /\ last.value = \h02
    /\ hist.ops = 2 /\ bus.ticks = 2
    /\ BusPeekByte(bus, \h4001) = RomByte(RomNoMbc, \h4001)

-----------------------------------------------------------------------------

\* whether an image is one the claim has from_rom accept
HeaderAccepted(rom) ==
    /\ rom.rom_size <= 8
    /\ rom.len = Pow2(15 + rom.rom_size)
    /\ rom.ram_size \in {\h00, \h02, \h03, \h04, \h05}
    /\ rom.mbc \in {\h00, \h01}

\* C23: from_rom succeeds exactly when header[0x148] <= 8, the length is
\* 2^(15 + header[0x148]), header[0x149] is one of 0x00, 0x02, 0x03, 0x04,
\* 0x05 and header[0x147] is 0x00 or 0x01; it yields NoMbc for 0x00 and Mbc1
\* for 0x01, and for every other image it fails and the bus keeps the
\* cartridge it had.
C23_FromRomAccepts ==
    last.op = "insert_cartridge" =>
        /\ ~bus.panicked <=> HeaderAccepted(last.rom)
        /\ HeaderAccepted(last.rom) =>
              /\ bus.cartridge.kind = IF last.rom.mbc = 0 THEN "NoMbc" ELSE "Mbc1"
              /\ bus.cartridge.rom = last.rom
        /\ ~HeaderAccepted(last.rom) =>
              bus.cartridge = last.bus_before.cartridge

\* C23's case: the largest image accepted, inserted as an Mbc1
C23_Witness ==
    /\ last.op = "insert_cartridge" /\ ~bus.panicked
    /\ last.rom = RomMax
    /\ bus.cartridge.kind = "Mbc1"
    /\ bus.cartridge.ram.some

-----------------------------------------------------------------------------
(* The harness of the single-instruction tests: it sets the registers, the *)
(* flags and IME, takes a new bus and writes the test's memory bytes to it *)
(* with write_byte.                                                        *)

\* the `ram` list that puts bytes at base, base + 1, ...
ProgramAt(base, bytes) == [i \in 1 .. Len(bytes) |-> <<base + i - 1, bytes[i]>>]

\* set_state_from
SetStateFrom(registers, flags, ime, ram) ==
    /\ bus = [LoadBytes(BusDefault, ram) EXCEPT !.ticks = 0]
    /\ hist = HistInit(0, 0)
    /\ cpu = [registers |-> registers, flags |-> flags, ime |-> ime]
    /\ overflow_checks \in BOOLEAN
    /\ last = Observe("new", 0, 0, 0, "", bus, "")

\* the instruction of the last step, decoded again from the state before it
LastDecoded ==
    CpuDecode(CpuFetchImm8([cpu |-> last.cpu_before, bus |-> last.bus_before]),
              last.value)

\* the instruction of the step before the last one
PrevDecoded ==
    LET m == [cpu |-> last.prev_cpu_before, bus |-> last.prev_bus_before]
    IN  CpuDecode(CpuFetchImm8(m), CpuImm8(m))

\* the registers SWAP, SLA and SRA take besides (HL)
Registers8 == {"A", "B", "C", "D", "E", "H", "L"}

-----------------------------------------------------------------------------
(* SpecSwap: SWAP r twice.                                                 *)

\* the number of instructions in a run of SpecSwap
MaxSwapSteps == 2

\* the low three bits of the SWAP opcodes tried: B, C, D, E, H, L, (HL), A
SwapOperands == 0 .. 7

\* the values the registers start with
SwapValues == 0 .. 255

\* the harness loads SWAP r, SWAP r at StackProgramBase; every 8-bit register
\* starts with the same value, so (HL) is in ROM for some and in RAM for others
InitSwap ==
    \E r \in SwapOperands, v \in SwapValues, f \in BOOLEAN :
        SetStateFrom([a |-> v, b |-> v, c |-> v, d |-> v, e |-> v, h |-> v, l |-> v,
                      pc |-> StackProgramBase, sp |-> StackTop],
                     [z |-> f, n |-> f, h |-> f, c |-> f], FALSE,
                     ProgramAt(StackProgramBase, <<\hCB, \h30 + r, \hCB, \h30 + r>>))

NextSwap ==
    /\ hist.ops < MaxSwapSteps
    /\ Step

SpecSwap == InitSwap /\ [][NextSwap]_vars

\* C31: for every register r of A, B, C, D, E, H, L and every value of r,
\* SWAP r executed twice completes, leaves r with the value it had before the
\* first SWAP, and leaves C, N and H cleared and Z set iff r is 0.
C31_SwapTwice ==
    (/\ Stepped("Swap") /\ last.prev_instruction = "Swap"
     /\ LastDecoded.arg \in Registers8
     /\ PrevDecoded.arg = LastDecoded.arg)
        => LET r == RegisterField(LastDecoded.arg)
           IN  /\ ~bus.panicked
               /\ cpu.registers[r] = last.prev_cpu_before.registers[r]
               /\ ~cpu.flags.c /\ ~cpu.flags.n /\ ~cpu.flags.h
               /\ cpu.flags.z = (cpu.registers[r] = 0)

\* SWAP E twice on 0x5A: 0xA5 after the first, 0x5A again after the second
C31_Witness ==
    /\ Stepped("Swap") /\ last.prev_instruction = "Swap"
    /\ LastDecoded.arg = "E" /\ PrevDecoded.arg = "E"
    /\ last.prev_cpu_before.registers.e = \h5A
    /\ last.prev_cpu_before.flags.c
    /\ last.cpu_before.registers.e = \hA5
    /\ cpu.registers.e = \h5A
    /\ ~cpu.flags.c /\ ~cpu.flags.z
    /\ ~bus.panicked

-----------------------------------------------------------------------------
(* SpecAdc: one ADC or SBC.                                                *)

\* the number of instructions in a run of SpecAdc
MaxAdcSteps == 1

\* where the harness puts the byte an (HL) operand reads
OperandAddress == \hC800 + 0

\* ADC A,r / ADC A,(HL) / ADC A,n and SBC A,r / SBC A,(HL) / SBC A,n
AdcOpcodes == (\h88 .. \h8F) \cup (\h98 .. \h9F) \cup {\hCE, \hDE}

\* the values of A and of the operand
AdcValues == {\h00, \h01, \h0F, \h10, \h3C, \h7F, \h80, \h8F, \hA5, \hF0, \hFE, \hFF}

\* the registers of a test of an instruction on an 8-bit operand: A is a and
\* the other registers are v, except that HL is OperandAddress when the
\* operand is (HL)
OperandRegisters(a, v, indirect, pc) ==
    [a |-> a, b |-> v, c |-> v, d |-> v, e |-> v,
     h |-> IF indirect THEN OperandAddress \div 256 ELSE v,
     l |-> IF indirect THEN OperandAddress % 256 ELSE v,
     pc |-> pc, sp |-> StackTop]

\* the harness loads the opcode and its immediate byte v at StackProgramBase
\* and v at OperandAddress
InitAdc ==
    \E opcode \in AdcOpcodes, a \in AdcValues, v \in AdcValues, carry \in BOOLEAN :
        SetStateFrom(OperandRegisters(a, v, opcode % 8 = 6, StackProgramBase),
                     [z |-> FALSE, n |-> ~carry, h |-> FALSE, c |-> carry], FALSE,
                     ProgramAt(StackProgramBase, <<opcode, v>>)
                        \o <<<<OperandAddress, v>>>>)

NextAdc ==
    /\ hist.ops < MaxAdcSteps
    /\ Step

SpecAdc == InitAdc /\ [][NextAdc]_vars

\* the value of the 8-bit operand of the last step, as it was before the
\* step: the immediate byte, the byte at HL, or the register
OperandBefore ==
    LET operand == IF LastDecoded.name \in {"Adc", "Sbc"} THEN LastDecoded.arg
                   ELSE [kind |-> "Register", v |-> LastDecoded.arg]
        c0 == last.cpu_before
    IN  IF operand.kind = "Immediate8"
        THEN BusPeekByte(last.bus_before, WrappingAdd16(c0.registers.pc, 1))
        ELSE IF operand.v = "IndirectHL"
        THEN BusPeekByte(last.bus_before, CpuGetRegisterPair(c0, "HL"))
        ELSE c0.registers[RegisterField(operand.v)]

\* C32: ADC gives A' = (A+v+c) mod 256, H iff (A & 0xF)+(v & 0xF)+c > 0xF,
\* C iff A+v+c > 0xFF, N clear; SBC gives A' = (A-v-c) mod 256, H iff
\* (A & 0xF) < (v & 0xF)+c, C iff A < v+c, N set; both set Z iff A' is 0;
\* c is the carry flag before the instruction.
C32_AdcSbc ==
    LET A == last.cpu_before.registers.a
        v == OperandBefore
        c == IF last.cpu_before.flags.c THEN 1 ELSE 0
    IN  /\ Stepped("Adc") =>
              /\ ~bus.panicked
              /\ cpu.registers.a = (A + v + c) % 256
              /\ cpu.flags.h = ((A % 16) + (v % 16) + c > 15)
              /\ cpu.flags.c = (A + v + c > 255)
              /\ cpu.flags.z = (cpu.registers.a = 0)
              /\ ~cpu.flags.n
        /\ Stepped("Sbc") =>
              /\ ~bus.panicked
              /\ cpu.registers.a = (A - v - c + 512) % 256
              /\ cpu.flags.h = ((A % 16) < (v % 16) + c)
              /\ cpu.flags.c = (A < v + c)
              /\ cpu.flags.z = (cpu.registers.a = 0)
              /\ cpu.flags.n

\* ADC A,(HL) of 0xFF + 0x00 with the carry set: only the carry-in makes the
\* result 0 and sets H and C
C32_Witness ==
    /\ Stepped("Adc")
    /\ LastDecoded.arg.kind = "Register" /\ LastDecoded.arg.v = "IndirectHL"
    /\ last.cpu_before.registers.a = \hFF
    /\ OperandBefore = \h00
    /\ last.cpu_before.flags.c
    /\ cpu.registers.a = \h00
    /\ cpu.flags.z /\ cpu.flags.h /\ cpu.flags.c /\ ~cpu.flags.n
    /\ ~bus.panicked

-----------------------------------------------------------------------------
(* SpecOffset: one ADD SP,e or LD HL,SP+e.                                 *)

\* the number of instructions in a run of SpecOffset
MaxOffsetSteps == 1

\* ADD SP,e and LD HL,SP+e
OffsetOpcodes == {\hE8, \hF8}

\* the stack pointers the instruction starts with
OffsetPointers ==
    {\h0000, \h0001, \h000F, \h00F0, \h00FF, \h0FFF, \h7FFF, \h8000, \hD000,
     \hFF01, \hFFF1, \hFFFF}

\* the offsets e, as the byte after the opcode
Offsets == 0 .. 255

\* the harness loads the opcode and e at StackProgramBase
InitOffset ==
    \E opcode \in OffsetOpcodes, sp \in OffsetPointers, e \in Offsets, f \in BOOLEAN :
        SetStateFrom([a |-> \h11, b |-> \h22, c |-> \h33, d |-> \h44, e |-> \h55,
                      h |-> \h66, l |-> \h77, pc |-> StackProgramBase, sp |-> sp],
                     [z |-> f, n |-> f, h |-> f, c |-> f], FALSE,
                     ProgramAt(StackProgramBase, <<opcode, e>>))

NextOffset ==
    /\ hist.ops < MaxOffsetSteps
    /\ Step

SpecOffset == InitOffset /\ [][NextOffset]_vars

\* C33: with e the byte after the opcode and SP the stack pointer before,
\* ADD SP,e and LD HL,SP+e complete and put (SP + e as a signed byte) mod 2^16
\* into SP and HL respectively, clear Z and N, set H iff
\* (SP & 0xF) + (e & 0xF) > 0xF and C iff (SP & 0xFF) + e > 0xFF; LD HL,SP+e
\* leaves SP unchanged.
C33_StackOffset ==
    LET sp == last.cpu_before.registers.sp
        e == BusPeekByte(last.bus_before, WrappingAdd16(last.cpu_before.registers.pc, 1))
        signed == IF e >= 128 THEN e - 256 ELSE e
        sum == (sp + signed + 65536) % 65536
        flags == /\ ~cpu.flags.z /\ ~cpu.flags.n
                 /\ cpu.flags.h = ((sp % 16) + (e % 16) > 15)
                 /\ cpu.flags.c = ((sp % 256) + e > 255)
    IN  /\ (last.op = "step" /\ last.value = \hE8) =>
              /\ ~bus.panicked
              /\ cpu.registers.sp = sum
              /\ flags
        /\ (last.op = "step" /\ last.value = \hF8) =>
              /\ ~bus.panicked
              /\ CpuGetRegisterPair(cpu, "HL") = sum
              /\ cpu.registers.sp = sp
              /\ flags

\* LD HL,SP+e with SP = 0x0001 and e = 0xFF (-1): HL is 0x0000, SP is kept,
\* H and C are set from the unsigned byte and Z stays clear
C33_Witness ==
    /\ last.op = "step" /\ last.value = \hF8
    /\ last.cpu_before.registers.sp = \h0001
    /\ BusPeekByte(last.bus_before, WrappingAdd16(last.cpu_before.registers.pc, 1)) = \hFF
    /\ last.cpu_before.flags.z
    /\ CpuGetRegisterPair(cpu, "HL") = \h0000
    /\ cpu.registers.sp = \h0001
    /\ cpu.flags.h /\ cpu.flags.c /\ ~cpu.flags.z /\ ~cpu.flags.n
    /\ ~bus.panicked

-----------------------------------------------------------------------------
(* SpecCall: CALL nn or CALL cc,nn, then the instruction it leads to.      *)

\* the number of instructions in a run of SpecCall
MaxCallSteps == 2

\* CALL NZ, CALL Z, CALL, CALL NC, CALL C
CallOpcodes == {\hC4, \hCC, \hCD, \hD4, \hDC}

\* the addresses called, in work RAM and in high RAM; the harness puts a RET there
CallTargets == {\hC200, \hFF80}

\* the stack pointers: in work RAM, in echo RAM, and at the top of high RAM
CallPointers == {\hD000, \hE002, \hFFFE}

\* the harness loads CALL nn (or CALL cc,nn) and a NOP at StackProgramBase
\* and RET at nn
InitCall ==
    \E opcode \in CallOpcodes, nn \in CallTargets, sp \in CallPointers,
       z \in BOOLEAN, c \in BOOLEAN :
        SetStateFrom([a |-> \h11, b |-> \h22, c |-> \h33, d |-> \h44, e |-> \h55,
                      h |-> \h66, l |-> \h77, pc |-> StackProgramBase, sp |-> sp],
                     [z |-> z, n |-> FALSE, h |-> FALSE, c |-> c], FALSE,
                     ProgramAt(StackProgramBase, <<opcode, nn % 256, nn \div 256, \h00>>)
                        \o <<<<nn, \hC9>>>>)

NextCall ==
    /\ hist.ops < MaxCallSteps
    /\ Step

SpecCall == InitCall /\ [][NextCall]_vars

\* whether the CALL of the last step is taken: from its opcode and the flags
\* before it
CallTaken ==
    CASE last.value = \hCD -> TRUE
      [] last.value = \hC4 -> ~last.cpu_before.flags.z
      [] last.value = \hCC -> last.cpu_before.flags.z
      [] last.value = \hD4 -> ~last.cpu_before.flags.c
      [] last.value = \hDC -> last.cpu_before.flags.c

\* C34: a taken CALL nn completes, leaves at the new SP (SP - 2) the address
\* of the instruction after the 3-byte CALL and sets PC to nn; the RET that
\* follows it sets PC to that address and SP to what it was before the CALL;
\* a conditional CALL whose condition is false leaves SP and memory unchanged
\* and sets PC to the address after the CALL.
C34_CallThenRet ==
    LET pc == last.cpu_before.registers.pc
        sp == last.cpu_before.registers.sp
        nn == WordBefore(WrappingAdd16(pc, 1))
    IN  /\ (Stepped("Call") /\ CallTaken) =>
              /\ ~bus.panicked
              /\ cpu.registers.pc = nn
              /\ cpu.registers.sp = WrappingSub16(sp, 2)
              /\ WordNow(cpu.registers.sp) = WrappingAdd16(pc, 3)
        /\ (Stepped("Call") /\ ~CallTaken) =>
              /\ ~bus.panicked
              /\ cpu.registers.pc = WrappingAdd16(pc, 3)
              /\ cpu.registers.sp = sp
              /\ Arrays(bus) = Arrays(last.bus_before)
        /\ (Stepped("Ret") /\ last.prev_instruction = "Call") =>
              /\ ~bus.panicked
              /\ cpu.registers.pc = WrappingAdd16(last.prev_cpu_before.registers.pc, 3)
              /\ cpu.registers.sp = last.prev_cpu_before.registers.sp

\* CALL Z,0xFF80 taken with SP = 0xE002, then RET: back at the NOP after the
\* CALL with SP = 0xE002 again
C34_Witness ==
    /\ Stepped("Ret") /\ last.prev_instruction = "Call"
    /\ CpuImm8([cpu |-> last.prev_cpu_before, bus |-> last.prev_bus_before]) = \hCC
    /\ last.prev_cpu_before.flags.z
    /\ last.prev_cpu_before.registers.sp = \hE002
    /\ last.cpu_before.registers.pc = \hFF80
    /\ last.cpu_before.registers.sp = \hE000
    /\ cpu.registers.pc = StackProgramBase + 3
    /\ cpu.registers.sp = \hE002
    /\ ~bus.panicked

-----------------------------------------------------------------------------

\* C35: after set_post_boot_state on a bus without a boot ROM, the high byte
\* of the timer's sysclock is 0xAB and a peek of DIV (0xFF04) returns 0xAB.
C35_PostBootDiv ==
    (last.op = "set_post_boot_state" /\ ~bus.bootrom_enabled /\ ~bus.panicked) =>
        /\ bus.timer.sysclock \div 256 = \hAB
        /\ BusPeekByte(bus, \hFF04) = \hAB

-----------------------------------------------------------------------------
(* SpecIo: reads and writes of the addresses without a register.           *)

\* the number of bus operations in a run of SpecIo
MaxIoOps == 2

\* 0xFEA0-0xFEFF, and the addresses of 0xFF00-0xFF7F other than the serial
\* registers, the timer registers, IF, SCY, LY and the boot-ROM disable port
UnassignedAddrs ==
    (\hFEA0 .. \hFEFF)
        \cup ((\hFF00 .. \hFF7F)
                \ ({\hFF01, \hFF02, \hFF0F, \hFF42, \hFF44, \hFF50} \cup (\hFF04 .. \hFF07)))

\* the addresses the operations of SpecIo are made on
IoAddrs == {\hFEA0, \hFEFF, \hFF00, \hFF03, \hFF4F, \hFF7F}

\* the bytes written to them
IoValues == {\h01, \hFF}

\* writes that give the bus a state to keep: the timer enabled at its fastest
\* rate, TIMA about to overflow, a byte of work RAM, IF
IoSetups == {<<\hFF07, \h05>>, <<\hFF05, \hFF>>, <<\hC000, \h5A>>, <<\hFF0F, \h01>>}

\* a new bus, with or without an MBC1 cartridge, after 0 or 2 ticks
InitIo ==
    /\ \E cart \in BOOLEAN, sysclock \in {\h0000, \h0008} :
          /\ bus = LET b == [BusDefault EXCEPT !.timer.sysclock = sysclock]
                   IN  IF cart THEN BusInsertCartridge(b, FromRom(RomMbc1)) ELSE b
          /\ hist = HistInit(sysclock, 0)
    /\ cpu = CpuDefault
    /\ overflow_checks \in BOOLEAN
    /\ last = Observe("new", 0, 0, 0, "", bus, "")

NextIo ==
    \/ \E address \in IoAddrs : hist.ops < MaxIoOps /\ ReadByte(address)
    \/ \E address \in IoAddrs : hist.ops < MaxIoOps /\ PeekByte(address)
    \/ \E address \in IoAddrs, value \in IoValues :
          hist.ops < MaxIoOps /\ WriteByte(address, value)
    \/ \E w \in IoSetups : hist.ops < MaxIoOps /\ WriteByte(w[1], w[2])

SpecIo == InitIo /\ [][NextIo]_vars

\* C36: a read_byte or peek_byte of an address without a register returns
\* 0x00 and does not fail; a write_byte to one leaves the bus, with its
\* cartridge and display, exactly as one tick leaves the bus it was made on;
\* and in every state reached the same holds of every such address.
C36_UnassignedPorts ==
    /\ ~bus.panicked
    /\ (last.op \in {"read_byte", "peek_byte"} /\ last.address \in UnassignedAddrs) =>
          last.result = \h00
    /\ (last.op = "write_byte" /\ last.address \in UnassignedAddrs) =>
          bus = BusTick(last.bus_before)
    /\ \A address \in UnassignedAddrs :
          /\ ~BusPeekPanics(bus, address)
          /\ BusPeekByte(bus, address) = \h00
          /\ \A value \in IoValues : BusWriteByte(bus, address, value) = BusTick(bus)

\* a write of 0xFF to 0xFF03 on a bus with a cartridge, work RAM written and
\* the serial register still 0: only the tick shows
C36_Witness ==
    /\ last.op = "write_byte" /\ last.address = \hFF03 /\ last.value = \hFF
    /\ bus.cartridge.kind = "Mbc1"
    /\ Load(bus.wram, 0) = \h5A
    /\ bus.serial = \h00
    /\ bus.timer.sysclock = last.bus_before.timer.sysclock + 4
    /\ BusPeekByte(bus, \hFF03) = \h00
    /\ ~bus.panicked

-----------------------------------------------------------------------------
(* SpecShift: one SLA or SRA.                                              *)

\* the number of instructions in a run of SpecShift
MaxShiftSteps == 1

\* the second byte of CB-prefixed SLA r / SLA (HL) and SRA r / SRA (HL)
ShiftOpcodes == \h20 .. \h2F

\* the values of the operand
ShiftValues == 0 .. 255

\* the harness loads 0xCB and the opcode at StackProgramBase and v at
\* OperandAddress
InitShift ==
    \E opcode \in ShiftOpcodes, v \in ShiftValues, f \in BOOLEAN :
        SetStateFrom(OperandRegisters(v, v, opcode % 8 = 6, StackProgramBase),
                     [z |-> f, n |-> f, h |-> f, c |-> f], FALSE,
                     ProgramAt(StackProgramBase, <<\hCB, opcode>>)
                        \o <<<<OperandAddress, v>>>>)

NextShift ==
    /\ hist.ops < MaxShiftSteps
    /\ Step

SpecShift == InitShift /\ [][NextShift]_vars

\* the value of the operand of the last step after it: the byte at HL, or
\* the register
OperandNow ==
    IF LastDecoded.arg = "IndirectHL"
    THEN BusPeekByte(bus, CpuGetRegisterPair(last.cpu_before, "HL"))
    ELSE cpu.registers[RegisterField(LastDecoded.arg)]

\* C37: for each operand B, C, D, E, H, L, (HL), A with value v, SLA
\* completes and leaves (v << 1) & 0xFF in the operand with C = bit 7 of v,
\* SRA completes and leaves (v >> 1) | (v & 0x80) with C = bit 0 of v; both
\* set Z iff that result is 0 and clear N and H; the operand (HL) is the
\* byte of memory at HL.
C37_SlaSra ==
    LET v == OperandBefore
        flags == /\ cpu.flags.z = (OperandNow = 0)
                 /\ ~cpu.flags.n /\ ~cpu.flags.h
    IN  /\ Stepped("Sla") =>
              /\ ~bus.panicked
              /\ OperandNow = (v * 2) % 256
              /\ cpu.flags.c = (v >= 128)
              /\ flags
        /\ Stepped("Sra") =>
              /\ ~bus.panicked
              /\ OperandNow = (v \div 2) + (IF v >= 128 THEN 128 ELSE 0)
              /\ cpu.flags.c = (v % 2 = 1)
              /\ flags

-----------------------------------------------------------------------------
(* SpecInPlace: one instruction that modifies the byte at (HL).            *)

\* the number of instructions in a run of SpecInPlace
MaxInPlaceSteps == 1

\* INC (HL) and DEC (HL), each followed by a NOP
InPlaceOpcodes == {<<\h34, \h00>>, <<\h35, \h00>>}

\* CB-prefixed RLC, RRC, RL, RR, SLA, SRA, SWAP, SRL, RES 0, RES 7, SET 0 and
\* SET 7 on (HL)
InPlacePrefixed ==
    {<<\hCB, op>> : op \in {\h06, \h0E, \h16, \h1E, \h26, \h2E, \h36, \h3E,
                            \h86, \hBE, \hC6, \hFE}}

\* where HL points: work RAM, DIV and TIMA
InPlacePointers == {OperandAddress, \hFF04, \hFF05}

\* the values the harness writes to TIMA and to OperandAddress
InPlaceValues == {\h00, \h7E, \h7F, \hFF}

\* the harness enables the timer at its fastest rate (TAC = 5), writes v to
\* TIMA and to OperandAddress, the program to StackProgramBase, and 0 to 3
\* further bytes of work RAM: each write ticks, so the program starts at each
\* of the four phases of the timer
InitInPlace ==
    \E program \in InPlaceOpcodes \cup InPlacePrefixed, hl \in InPlacePointers,
       v \in InPlaceValues, phase \in 0 .. 3 :
        SetStateFrom([a |-> 0, b |-> 0, c |-> 0, d |-> 0, e |-> 0,
                      h |-> hl \div 256, l |-> hl % 256,
                      pc |-> StackProgramBase, sp |-> StackTop],
                     [z |-> FALSE, n |-> FALSE, h |-> FALSE, c |-> FALSE], FALSE,
                     <<<<\hFF07, \h05>>, <<\hFF05, v>>, <<OperandAddress, v>>>>
                        \o ProgramAt(StackProgramBase, program)
                        \o [i \in 1 .. phase |-> <<OperandAddress + i, \h00>>])

NextInPlace ==
    /\ hist.ops < MaxInPlaceSteps
    /\ Step

SpecInPlace == InitInPlace /\ [][NextInPlace]_vars

\* whether the last step was one of the instructions that modify (HL) in place
InPlaceStepped ==
    /\ last.op = "step"
    /\ \/ /\ last.instruction \in {"Inc", "Dec"}
          /\ LastDecoded.arg.kind = "Register" /\ LastDecoded.arg.v = "IndirectHL"
       \/ /\ last.instruction \in {"Rlc", "Rrc", "Rl", "Rr", "Sla", "Sra", "Swap", "Srl"}
          /\ LastDecoded.arg = "IndirectHL"
       \/ /\ last.instruction \in {"Res", "Set"}
          /\ LastDecoded.arg2 = "IndirectHL"

\* the byte at HL when the execution of the last step began, after its fetches
ObservedAtHL == BusPeekByte(LastDecoded.m.bus, CpuGetRegisterPair(last.cpu_before, "HL"))

\* C38: an instruction that modifies (HL) in place completes with two bus
\* transactions after its fetches (the read of HL and the write of HL), and
\* the carry a rotate or shift leaves is the bit shifted out of the byte
\* that was at HL when its execution began.
C38_OneReadOneWrite ==
    InPlaceStepped =>
        /\ ~bus.panicked
        /\ bus.ticks - LastDecoded.m.bus.ticks = 2
        /\ last.instruction \in {"Rlc", "Rl", "Sla"} =>
              cpu.flags.c = (ObservedAtHL >= 128)
        /\ last.instruction \in {"Rrc", "Rr", "Sra", "Srl"} =>
              cpu.flags.c = (ObservedAtHL % 2 = 1)

-----------------------------------------------------------------------------

\* C39: every bit of IF set before a read_byte or a write_byte of an address
\* other than 0xFF0F is set after it, and when the tick of a write_byte to
\* 0xFF0F overflows TIMA, bit 2 of IF is set after the write whatever the
\* value written.
C39_TickKeepsIf ==
    /\ (/\ last.op \in {"read_byte", "write_byte"} /\ last.address # \hFF0F
        /\ ~bus.panicked) =>
          BitAnd(last.if_before, bus.interrupt_flags) = last.if_before
    /\ (/\ last.op = "write_byte" /\ last.address = \hFF0F
        /\ last.tick_increments /\ last.tima_mid = 255
        /\ ~bus.panicked) =>
          Bit(bus.interrupt_flags, 2) = 1

\* a write of 0x00 to 0xFF0F whose tick overflows TIMA: IF is 0xE0 after the
\* access and 0xE4 after the tick
C39_Witness ==
    /\ last.op = "write_byte" /\ last.address = \hFF0F /\ last.value = \h00
    /\ last.tick_increments /\ last.tima_mid = 255
    /\ last.if_mid = \hE0
    /\ bus.interrupt_flags = \hE4
    /\ ~bus.panicked

-----------------------------------------------------------------------------
(* SpecIsa: every opcode, with IME set and clear.                          *)

\* the number of instructions in a run of SpecIsa
MaxIsaSteps == 2

\* every first byte of an instruction
IsaOpcodes == 0 .. 255

\* the byte after the opcode: an immediate, an offset, the low byte of an
\* address, the opcode after 0xCB (RLC B, RL (HL), SWAP A, BIT 0,(HL),
\* RES 0,(HL), SET 0,(HL), SET 6,E, SET 7,E), and the next instruction after a
\* one-byte one (NOP, ..., DI, EI)
IsaSecondBytes == {\h00, \h16, \h37, \h46, \h86, \hC6, \hF3, \hFB}

\* the byte after that: the high byte of an address, and the next instruction
\* after a two-byte one (RET NZ, DI)
IsaThirdBytes == {\hC0, \hF3}

\* the harness loads the three bytes at StackProgramBase, with HL and SP in
\* work RAM
InitIsa ==
    \E opcode \in IsaOpcodes, second \in IsaSecondBytes, third \in IsaThirdBytes,
       ime \in BOOLEAN, z \in BOOLEAN, c \in BOOLEAN :
        SetStateFrom([a |-> \h11, b |-> \h22, c |-> \h33, d |-> \h44, e |-> \h55,
                      h |-> \hC8, l |-> \h00, pc |-> StackProgramBase, sp |-> \hD000],
                     [z |-> z, n |-> FALSE, h |-> FALSE, c |-> c], ime,
                     ProgramAt(StackProgramBase, <<opcode, second, third>>))

NextIsa ==
    /\ hist.ops < MaxIsaSteps
    /\ Step

SpecIsa == InitIsa /\ [][NextIsa]_vars

\* C40: a step of any instruction other than EI, DI and RETI, taken or not
\* taken, leaves IME as it was, and a step of DI completes and leaves IME
\* false.
C40_ImeFrame ==
    /\ (last.op = "step" /\ last.instruction \notin {"Ei", "Di", "Reti"}) =>
           cpu.ime = last.cpu_before.ime
    /\ Stepped("Di") => (~bus.panicked /\ ~cpu.ime)

\* JR C,0 with carry set and IME true, which is taken and keeps IME true, and
\* then the DI after it, which makes IME false
C40_Witness ==
    /\ Stepped("Di")
    /\ last.prev_instruction = "Jr"
    /\ last.prev_cpu_before.flags.c
    /\ BusPeekByte(last.prev_bus_before, last.prev_cpu_before.registers.pc) = \h38
    /\ last.prev_cpu_before.ime
    /\ last.cpu_before.ime
    /\ ~cpu.ime
    /\ ~bus.panicked

====
